---- MODULE Spec2Model ----
(***************************************************************************)
(* CineReads backend: the file cache (app/services/cache_service.py), the  *)
(* metadata fetch loop (app/services/hardcover_service.py) and the book    *)
(* enrichment that joins them (app/routers/recommendations.py).            *)
(*                                                                         *)
(* The cache is modelled at the level of the files it keeps: every entry   *)
(* is a file <namespace>/<md5(key)>.json whose text is a JSON document,    *)
(* written through <md5(key)>.tmp and a rename.  A coroutine is a task     *)
(* whose steps are the stretches of code between two suspensions of the    *)
(* event loop (an aiofiles call runs in a worker thread and the coroutine  *)
(* resumes later).  Time is the value datetime.now() returns, in seconds.  *)
(* The file system is POSIX: rename replaces its target atomically.        *)
(***************************************************************************)
EXTENDS Integers, Sequences, FiniteSets, TLC

VARIABLES
  clock,              \* datetime.now()
  fs,                 \* per entry path: its .json file and its .tmp file
  cleanup_started,    \* CacheService._cleanup_started
  hardcover_enabled,  \* enable_hardcover_integration and a usable API key
  task,               \* the get, set, lookup and fetch coroutines
  sweep,              \* the _cleanup_expired_cache coroutine
  batch,              \* the get_multiple_books_metadata call
  call,               \* the last call of a key builder or of the resolver
  admin               \* the clear_all or get_cache_stats call

vars == <<clock, fs, cleanup_started, hardcover_enabled, task, sweep, batch, call, admin>>

(***************************************************************************)
(* Bounds of the model.                                                    *)
(***************************************************************************)
\* books in the list of one batch fetch
MaxBatch == 6
\* movies in the list a key is built of
MaxMovies == 2
\* documents in the list of results the resolver is called with
MaxResults == 2
\* coroutines that may be in flight at once
NTasks == 2
\* seconds the clock advances in single steps
MaxClock == 2
\* largest ttl a direct set is called with
MaxTtl == 1
\* files that are malformed when the service is constructed
MaxCorrupt == 1
\* seconds the lookups' clock runs past a multiple of the book ttl
LookupSlack == 1

(***************************************************************************)
(* Program constants.                                                      *)
(***************************************************************************)
book_cache_expire_seconds == 86400
cache_expire_seconds == 3600
hardcover_retry_attempts == 3
max_concurrent_book_requests == 10
\* the 5 of asyncio.Semaphore(min(5, ...))
semaphore_cap == 5

Tasks == 1..NTasks
Ttls == 0..MaxTtl

(***************************************************************************)
(* Strings are sequences of characters.                                    *)
(***************************************************************************)
Lower(c) == CASE c = "A" -> "a" [] c = "B" -> "b" [] c = "D" -> "d" [] OTHER -> c

IsSpace(c) == c = " "

LowerStr(s) == [i \in 1..Len(s) |-> Lower(s[i])]

RECURSIVE LStrip(_)
LStrip(s) == IF s # <<>> /\ IsSpace(Head(s)) THEN LStrip(Tail(s)) ELSE s

RECURSIVE RStrip(_)
RStrip(s) ==
  IF s # <<>> /\ IsSpace(s[Len(s)]) THEN RStrip(SubSeq(s, 1, Len(s) - 1)) ELSE s

Strip(s) == RStrip(LStrip(s))

\* hashlib.md5(...).hexdigest(), taken to be injective: the digest of a
\* string is represented by the string itself
md5(s) == s

\* create_book_cache_key
create_book_cache_key(title, author) ==
  <<"book_v2:">> \o md5(Strip(LowerStr(title)) \o <<":">> \o Strip(LowerStr(author)))

(***************************************************************************)
(* Values, stored documents and file contents.                             *)
(***************************************************************************)
\* a value handed to set: a plain JSON document ("dict") or a Pydantic
\* model ("model"); id names its content
DictM1 == [kind |-> "dict", id |-> "m1"]
DictM2 == [kind |-> "dict", id |-> "m2"]
ModelM2 == [kind |-> "model", id |-> "m2"]
NullValue == [kind |-> "null", id |-> "-"]
MissingValue == [kind |-> "missing", id |-> "-"]

Metadata == {DictM1, DictM2}
Values == {DictM1, DictM2, ModelM2}

\* _json_serializer under json.dumps, then json.loads: what a value is
\* once it has been through the file
_json_serializer(v) == IF v.kind = "model" THEN [kind |-> "dict", id |-> v.id] ELSE v

\* Python truthiness of a value read back from the cache
Truthy(v) == v.kind \in {"dict", "model"}

\* the expired_at field of a stored document
IsoTime(t) == [kind |-> "iso", t |-> t]
BadStrTime == [kind |-> "badstr", t |-> 0]
NumberTime == [kind |-> "number", t |-> 0]
MissingTime == [kind |-> "missing", t |-> 0]

\* the JSON document json.loads yields: an object with (or without) its
\* value and expired_at members, or a document that is no object
ObjectDoc(v, e) == [shape |-> "object", value |-> v, exp |-> e]
NonObjectDoc == [shape |-> "nonobject", value |-> MissingValue, exp |-> MissingTime]

\* number of blocks the text of a document takes
DocSize(d) == IF d.value.id = "m2" THEN 2 ELSE 1

\* json.dumps(cache_data): the text of a document, block by block
Encode(d) == [i \in 1..DocSize(d) |-> [d |-> d, i |-> i]]

\* json.loads(content): the document, or JSONDecodeError (ok = FALSE) when
\* the text is not the whole text of one document
json_loads(data) ==
  IF data # <<>> /\ data = Encode(data[1].d)
    THEN [ok |-> TRUE, doc |-> data[1].d]
    ELSE [ok |-> FALSE, doc |-> NonObjectDoc]

MissingFile == [exists |-> FALSE, data |-> <<>>]
FileOf(data) == [exists |-> TRUE, data |-> data]

\* a write of data at offset 0 of a file that holds old
Overwrite(old, data) ==
  IF Len(data) >= Len(old) THEN data
  ELSE data \o SubSeq(old, Len(data) + 1, Len(old))

(***************************************************************************)
(* Paths.                                                                  *)
(***************************************************************************)
Namespaces == {"recommendations", "books"}

K1 == <<"k", "1">>

Titles == {<<"A">>, <<"a", " ">>, <<"b">>}
Authors == {<<>>, <<"B">>}

\* _get_cache_file_path: the .json file of (key, cache_type)
_get_cache_file_path(key, cache_type) == [ns |-> cache_type, key |-> md5(key)]

CachePaths ==
  { _get_cache_file_path(K1, "recommendations"),
    _get_cache_file_path(K1, "books") }

BookPaths ==
  { _get_cache_file_path(create_book_cache_key(ti, au), "books") :
      ti \in Titles, au \in Authors }

FinalPaths == CachePaths \cup BookPaths

\* the .json files a directory listing of namespace ns shows
ExistingIn(f, ns) == {p \in FinalPaths : p.ns = ns /\ f[p].json.exists}

(***************************************************************************)
(* Malformed files a cache directory may hold when the service starts.     *)
(***************************************************************************)
CorruptFiles ==
  { <<[d |-> ObjectDoc(DictM2, IsoTime(MaxClock)), i |-> 1]>>,
    Encode(NonObjectDoc),
    Encode(ObjectDoc(DictM1, MissingTime)),
    Encode(ObjectDoc(MissingValue, IsoTime(MaxClock))),
    Encode(ObjectDoc(DictM1, BadStrTime)),
    Encode(ObjectDoc(DictM1, NumberTime)) }


(***************************************************************************)
(* Search strategies of the fetch loop.                                    *)
(***************************************************************************)
\* stop words of _clean_search_query that can be spelled in the model's
\* alphabet
stop_words == {<<"a">>}

\* str.split(): the words of s, split on runs of white space
RECURSIVE Split(_, _, _)
Split(s, word, acc) ==
  IF s = <<>> THEN (IF word = <<>> THEN acc ELSE Append(acc, word))
  ELSE IF IsSpace(Head(s))
    THEN Split(Tail(s), <<>>, IF word = <<>> THEN acc ELSE Append(acc, word))
    ELSE Split(Tail(s), Append(word, Head(s)), acc)

Words(s) == Split(s, <<>>, <<>>)

\* " ".join(words)
RECURSIVE Join(_)
Join(ws) ==
  IF ws = <<>> THEN <<>>
  ELSE IF Len(ws) = 1 THEN ws[1]
  ELSE ws[1] \o <<" ">> \o Join(Tail(ws))

\* [word for word in words if word not in stop_words]
RECURSIVE Filtered(_)
Filtered(ws) ==
  IF ws = <<>> THEN <<>>
  ELSE IF Head(ws) \in stop_words THEN Filtered(Tail(ws))
  ELSE <<Head(ws)>> \o Filtered(Tail(ws))

\* HardcoverService._clean_search_query
_clean_search_query(query) ==
  IF query = <<>> THEN <<>>
  ELSE LET cleaned == Strip(LowerStr(query))
           words == Words(cleaned)
       IN IF Len(words) > 2 /\ Filtered(words) # <<>>
            THEN Join(Filtered(words))
            ELSE cleaned

\* a strategy list that starts with the title alone
title_first_strategies(title, author) ==
  <<title>> \o (IF author # <<>> THEN <<title \o <<" ">> \o author>> ELSE <<>>)
    \o (IF author # <<>> THEN <<author \o <<" ">> \o title>> ELSE <<>>)

\* the search_strategies list get_book_metadata builds
search_strategies(title, author) ==
  LET title_cleaned == _clean_search_query(title)
  IN (IF author # <<>> THEN <<title \o <<" ">> \o author>> ELSE <<>>)
     \o <<title>>
     \o (IF title_cleaned # <<>> /\ title_cleaned # title
           THEN <<title_cleaned>> ELSE <<>>)
     \o (IF author # <<>> THEN <<author \o <<" ">> \o title>> ELSE <<>>)

(***************************************************************************)
(* Reading an entry.                                                       *)
(***************************************************************************)
\* what a coroutine holds after aiofiles.open + f.read: the text, or the
\* OSError of a file that is not there
NoSnap == [enoent |-> TRUE, data |-> <<>>]
ReadFile(f) == IF f.exists THEN [enoent |-> FALSE, data |-> f.data]
               ELSE [enoent |-> TRUE, data |-> <<>>]

Returned(v) == [tag |-> "value", val |-> v, remove |-> FALSE]
Miss == [tag |-> "absent", val |-> NullValue, remove |-> FALSE]
MissRemoved == [tag |-> "absent", val |-> NullValue, remove |-> TRUE]
Raised == [tag |-> "raised", val |-> NullValue, remove |-> FALSE]
NoRes == [tag |-> "none", val |-> NullValue, remove |-> FALSE]

\* a test that finds no entry expired
NeverExpired(now, expired_at) == FALSE

\* datetime.now() > expired_at
Expired(now, expired_at) == now > expired_at

\* CacheService.get from json.loads on: the value it returns, None (with
\* or without the removal of the file), or the exception that escapes it
ReadEntry(snap, now) ==
  IF snap.enoent THEN MissRemoved                      \* OSError
  ELSE LET j == json_loads(snap.data) IN
    IF ~j.ok THEN MissRemoved                          \* json.JSONDecodeError
    ELSE IF j.doc.shape # "object" THEN Raised         \* TypeError, not caught
    ELSE IF j.doc.exp.kind = "missing" THEN MissRemoved   \* KeyError
    ELSE IF j.doc.exp.kind = "badstr" THEN MissRemoved    \* ValueError
    ELSE IF j.doc.exp.kind = "number" THEN Raised      \* TypeError, not caught
    ELSE IF Expired(now, j.doc.exp.t) THEN MissRemoved
    ELSE IF j.doc.value.kind = "missing" THEN MissRemoved \* KeyError
    ELSE Returned(j.doc.value)

\* one file of _cleanup_expired_cache: the file is kept, removed, or a
\* TypeError leaves the inner try and ends the sweep in the outer handler
SweepEntry(snap, current_time) ==
  IF snap.enoent THEN "remove"
  ELSE LET j == json_loads(snap.data) IN
    IF ~j.ok THEN "remove"
    ELSE IF j.doc.shape # "object" THEN "abort"
    ELSE IF j.doc.exp.kind \in {"missing", "badstr"} THEN "remove"
    ELSE IF j.doc.exp.kind = "number" THEN "abort"
    ELSE IF Expired(current_time, j.doc.exp.t) THEN "remove"
    ELSE "keep"

(***************************************************************************)
(* State.                                                                  *)
(***************************************************************************)
P0 == _get_cache_file_path(K1, "recommendations")

NoLast == [set |-> FALSE, value |-> NullValue, t0 |-> 0, ttl |-> 0]

\* a coroutine: get, set, or enhance_book_with_metadata (lookup), at pc
IdleTask ==
  [op |-> "idle", pc |-> "idle", path |-> P0, value |-> NullValue, exp |-> 0,
   t0 |-> 0, ttl |-> 0,
   fd |-> "none", snap |-> NoSnap, res |-> NoRes, err |-> "none",
   raised |-> FALSE, title |-> <<>>, author |-> <<>>, attempt |-> 0,
   strat |-> 0, searches |-> 0, found |-> NullValue, wrote |-> FALSE,
   prev |-> NoLast, last |-> "none", query |-> <<>>, slept |-> 0]

NoneResult == [tag |-> "None", n |-> 0]
IntResult(n) == [tag |-> "int", n |-> n]

\* the _cleanup_expired_cache coroutine
IdleSweep ==
  [pc |-> "idle", now |-> 0, dirs |-> <<>>, todo |-> {}, cur |-> P0,
   snap |-> NoSnap, removed |-> 0, aborted |-> FALSE, ret |-> NoneResult]

EmptyStore == [p \in FinalPaths |-> [json |-> MissingFile, tmp |-> MissingFile]]

\* the cache directory as CacheService.__init__ finds it: mkdir(exist_ok)
\* keeps the files of earlier runs, of which up to MaxCorrupt are malformed
InitStore(paths) ==
  \E S \in SUBSET paths :
    /\ Cardinality(S) <= MaxCorrupt
    /\ \E c \in [S -> CorruptFiles] :
         fs = [p \in FinalPaths |->
                 [json |-> IF p \in S THEN FileOf(c[p]) ELSE MissingFile,
                  tmp |-> MissingFile]]

\* no key builder and no resolver call has been made
NoCall == [fn |-> "none"]

\* no clear_all and no get_cache_stats call is running
IdleAdmin ==
  [op |-> "idle", pc |-> "idle", cache_type |-> "-", dirs |-> <<>>, todo |-> {},
   cur |-> P0, data |-> NoSnap, stats |-> [tag |-> "none"]]

\* no batch fetch is running
IdleBatch ==
  [pc |-> "idle", n |-> 0, st |-> <<>>, out |-> <<>>, permits |-> 0,
   results |-> <<>>, inverted |-> FALSE]

InitRest ==
  /\ batch = IdleBatch
  /\ admin = IdleAdmin
  /\ call = NoCall
  /\ clock = 0
  /\ cleanup_started = FALSE
  /\ task = [t \in Tasks |-> IdleTask]
  /\ sweep = IdleSweep


(***************************************************************************)
(* File operations.                                                        *)
(***************************************************************************)
\* an open file descriptor names a file, not a path: after a rename of
\* p.tmp onto p.json a descriptor on the former .tmp file is a descriptor
\* on the .json file, and one on the replaced .json file is on a file no
\* path names any more
FdAfterRename(r, p) ==
  IF r.path = p /\ r.fd = "tmp" THEN [r EXCEPT !.fd = "final"]
  ELSE IF r.path = p /\ r.fd = "final" THEN [r EXCEPT !.fd = "orphan"]
  ELSE r

FdAfterUnlink(r, p) ==
  IF r.path = p /\ r.fd = "final" THEN [r EXCEPT !.fd = "orphan"] ELSE r

\* a removal that leaves the file where it is
KeepCacheFile(f, p) == f

\* CacheService._remove_cache_file: exists() and unlink() with no
\* suspension in between
_remove_cache_file(f, p) == [f EXCEPT ![p].json = MissingFile]

\* the state after _remove_cache_file(p) in a step that leaves the tasks tk
Remove(p, tk) ==
  /\ fs' = _remove_cache_file(fs, p)
  /\ task' = [u \in Tasks |-> FdAfterUnlink(tk[u], p)]

(***************************************************************************)
(* The sweep: CacheService._cleanup_expired_cache.                         *)
(***************************************************************************)
\* the listing rglob("*.json") is at: the files left of the directory
\* being listed, or those of the next directory that has any
RECURSIVE NextListing(_, _, _)
NextListing(f, dirs, todo) ==
  IF todo # {} \/ dirs = <<>> THEN [dirs |-> dirs, todo |-> todo]
  ELSE NextListing(f, Tail(dirs), ExistingIn(f, Head(dirs)))

\* the orders in which rglob may walk the namespace directories
DirOrders ==
  {o \in [1..Cardinality(Namespaces) -> Namespaces] :
     \A i, j \in 1..Cardinality(Namespaces) : i # j => o[i] # o[j]}

\* a sweep that returns its count
CleanupCount(removed) == IntResult(removed)

\* what _cleanup_expired_cache returns
CleanupReturn(removed) == NoneResult

\* a start of the cleanup that does not look at the flag
AlwaysCleanup ==
  /\ cleanup_started' = TRUE
  /\ sweep' = [IdleSweep EXCEPT !.pc = "created"]

\* _ensure_cleanup_started: the first get or set creates the sweep task
EnsureCleanup ==
  /\ cleanup_started' = TRUE
  /\ sweep' = IF cleanup_started THEN sweep
              ELSE [IdleSweep EXCEPT !.pc = "created"]

\* a store that lets one coroutine at a time through
OneAtATime ==
  /\ sweep.pc # "created"
  /\ Cardinality({t \in Tasks : task[t].pc \notin {"idle", "done"}}) <= 1

\* the event loop runs its callbacks in the order they were queued: the
\* first step of the sweep task that _ensure_cleanup_started created comes
\* before any coroutine that suspended after that is resumed
Resumable == sweep.pc # "created"

\* the sweep runs to its first aiofiles.open: current_time, the first
\* directory listing, the first file
BeginSweep ==
  /\ \E o \in DirOrders :
       LET l == NextListing(fs, o, {}) IN
         IF l.todo = {}
           THEN sweep' = [sweep EXCEPT !.pc = "done", !.now = clock,
                            !.ret = CleanupReturn(0)]
           ELSE \E p \in l.todo :
                  sweep' = [sweep EXCEPT !.pc = "read", !.now = clock,
                              !.dirs = l.dirs,
                              !.todo = l.todo \ {p}, !.cur = p]
  /\ UNCHANGED <<clock, fs, cleanup_started, hardcover_enabled, task, batch, call, admin>>

\* the task _ensure_cleanup_started created takes its first step
SweepBegin == sweep.pc = "created" /\ BeginSweep

\* cleanup_old_cache, the background task /recommend adds after its reply,
\* awaits _cleanup_expired_cache: it runs at once to its first suspension
SweepStart == cleanup_started /\ sweep.pc = "idle" /\ BeginSweep

\* aiofiles.open + f.read of the current file, in a worker thread
SweepRead ==
  /\ sweep.pc = "read"
  /\ sweep' = [sweep EXCEPT !.pc = "decide", !.snap = ReadFile(fs[sweep.cur].json)]
  /\ UNCHANGED <<clock, fs, cleanup_started, hardcover_enabled, task, batch, call, admin>>

\* the sweep resumes: parse, compare, remove; then the next file
SweepDecide ==
  /\ sweep.pc = "decide"
  /\ LET what == SweepEntry(sweep.snap, sweep.now)
         gone == what = "remove" /\ fs[sweep.cur].json.exists
         f2 == IF what = "remove" THEN _remove_cache_file(fs, sweep.cur) ELSE fs
         n == IF gone THEN sweep.removed + 1 ELSE sweep.removed
         l == NextListing(f2, sweep.dirs, sweep.todo)
     IN /\ fs' = f2
        /\ task' = IF what = "remove"
                     THEN [u \in Tasks |-> FdAfterUnlink(task[u], sweep.cur)]
                     ELSE task
        /\ IF what = "abort"
             THEN sweep' = [sweep EXCEPT !.pc = "done", !.aborted = TRUE,
                              !.snap = NoSnap, !.dirs = <<>>, !.todo = {},
                              !.ret = CleanupReturn(n)]
           ELSE IF l.todo = {}
             THEN sweep' = [sweep EXCEPT !.pc = "done", !.removed = n,
                              !.snap = NoSnap, !.dirs = <<>>, !.todo = {},
                              !.ret = CleanupReturn(n)]
           ELSE \E p \in l.todo :
                  sweep' = [sweep EXCEPT !.pc = "read", !.removed = n,
                              !.snap = NoSnap, !.dirs = l.dirs,
                              !.todo = l.todo \ {p}, !.cur = p]
  /\ UNCHANGED <<clock, cleanup_started, hardcover_enabled, batch, call, admin>>

\* the finished sweep task is dropped
SweepReturn ==
  /\ sweep.pc = "done"
  /\ sweep' = IdleSweep
  /\ UNCHANGED <<clock, fs, cleanup_started, hardcover_enabled, task, batch, call, admin>>


(***************************************************************************)
(* CacheService.get and the lookup that continues from it.                 *)
(***************************************************************************)
\* a new coroutine takes the first free slot of the task table
FreeSlot(t) ==
  /\ task[t].op = "idle"
  /\ \A u \in Tasks : u < t => task[u].op # "idle"

\* a fetch that tells "could not look" from "found nothing"
FetchUnavailable(metadata) ==
  IF metadata = NullValue THEN Raised ELSE Returned(metadata)

\* what get_book_metadata hands its caller: the metadata, or None
FetchResult(metadata) ==
  IF metadata = NullValue THEN Miss ELSE Returned(metadata)

\* a fetch that raises where get_book_metadata returns None
FetchRaises(r) ==
  [r EXCEPT !.pc = "done", !.found = NullValue, !.attempt = 0, !.strat = 0,
            !.res = Raised, !.raised = TRUE]

\* get_book_metadata returns None to the coroutine r that called it:
\* enhance_book_with_metadata only logs it; a direct caller has the result
FetchNone(r) ==
  LET g == [r EXCEPT !.pc = "done", !.found = NullValue, !.attempt = 0, !.strat = 0]
  IN IF r.op = "lookup" THEN g ELSE [g EXCEPT !.res = FetchResult(NullValue)]

\* get_book_metadata up to its first search: nothing is searched when the
\* integration is disabled or the API key is unusable
StartFetch(r) ==
  IF hardcover_enabled
    THEN [r EXCEPT !.pc = "search", !.attempt = 0, !.strat = 1]
    ELSE FetchNone(r)

\* a lookup that takes no cached value
NeverHit(res) == FALSE

\* enhance_book_with_metadata on the cached value: a hit is applied
CacheHit(res) == res.tag = "value" /\ Truthy(res.val)

\* the coroutine r once its get has ended with res: a get returns (or
\* raises) to its caller; enhance_book_with_metadata returns the book on a
\* hit and on an exception, and fetches on a miss
AfterGet(r, res) ==
  LET g == [r EXCEPT !.res = res, !.snap = NoSnap, !.raised = (res.tag = "raised")]
  IN IF r.op = "get" THEN [g EXCEPT !.pc = "done"]
     ELSE IF res.tag = "raised" THEN [g EXCEPT !.pc = "done", !.raised = FALSE]
     ELSE IF CacheHit(res) THEN [g EXCEPT !.pc = "done"]
     ELSE StartFetch(g)

\* the coroutine in slot t is a set on path p that has written its entry
\* and returned: its caller may go on with a get of the same key
SetJustDone(t, p) ==
  /\ task[t].op = "set" /\ task[t].pc = "done"
  /\ task[t].err = "none" /\ task[t].path = p

\* get up to aiofiles.open: _ensure_cleanup_started, the path, exists();
\* prev remembers the set the caller has just completed, if any
BeginGet(t, r) ==
  /\ FreeSlot(t) \/ SetJustDone(t, r.path)
  /\ EnsureCleanup
  /\ LET g == [r EXCEPT !.prev = IF SetJustDone(t, r.path)
                                   THEN [set |-> TRUE, value |-> task[t].value,
                                         t0 |-> task[t].t0, ttl |-> task[t].ttl]
                                   ELSE NoLast]
     IN task' = [task EXCEPT ![t] =
                   IF fs[r.path].json.exists THEN [g EXCEPT !.pc = "read"]
                   ELSE AfterGet(g, Miss)]
  /\ UNCHANGED <<clock, fs, hardcover_enabled, batch, call, admin>>

\* cache_service.get(key, cache_type)
GetStart(t, p) == BeginGet(t, [IdleTask EXCEPT !.op = "get", !.path = p])

\* enhance_book_with_metadata(book): the key, then cache_service.get
LookupStart(t, title, author) ==
  BeginGet(t, [IdleTask EXCEPT !.op = "lookup", !.title = title, !.author = author,
                 !.path = _get_cache_file_path(create_book_cache_key(title, author), "books")])

\* aiofiles.open in a worker thread, the coroutine resumes, f.read in a
\* worker thread
GetRead(t) ==
  /\ task[t].pc = "read"
  /\ Resumable
  /\ task' = [task EXCEPT ![t].pc = "decide",
                          ![t].snap = ReadFile(fs[task[t].path].json)]
  /\ UNCHANGED <<clock, fs, cleanup_started, hardcover_enabled, sweep, batch, call, admin>>

\* the coroutine resumes: json.loads, the expiry test, the removal
GetDecide(t) ==
  /\ task[t].pc = "decide"
  /\ Resumable
  /\ LET res == ReadEntry(task[t].snap, clock)
         tk == [task EXCEPT ![t] = AfterGet(task[t], res)]
     IN IF res.remove THEN Remove(task[t].path, tk)
        ELSE /\ task' = tk
             /\ fs' = fs
  /\ UNCHANGED <<clock, cleanup_started, hardcover_enabled, sweep, batch, call, admin>>

(***************************************************************************)
(* CacheService.set.                                                       *)
(***************************************************************************)
\* an expiry that leaves the ttl out
ExpiryWithoutTtl(now, expire) == now

\* expired_at = datetime.now() + timedelta(seconds=expire)
SetExpiry(now, expire) == now + expire

\* the text set writes
CacheText(value, expired_at) ==
  Encode(ObjectDoc(_json_serializer(value), IsoTime(expired_at)))

SetReturned == [tag |-> "returned", val |-> NullValue, remove |-> FALSE]

\* what the coroutine r holds once its set has returned: a set call has its
\* result; enhance_book_with_metadata discards it
AfterSet(r) == IF r.op = "set" THEN SetReturned ELSE r.res

\* a set that lets the error through
SetFailureRaises(r, where) ==
  [r EXCEPT !.pc = "done", !.fd = "none", !.err = where, !.res = Raised,
            !.raised = TRUE]

\* except (OSError, TypeError, ValueError): the error is printed and set
\* returns
SetFailure(r, where) ==
  [r EXCEPT !.pc = "done", !.fd = "none", !.err = where, !.res = AfterSet(r)]

\* set up to aiofiles.open: _ensure_cleanup_started, the path, expired_at
BeginSet(r, value, expire) ==
  [r EXCEPT !.pc = "open", !.value = value, !.exp = SetExpiry(clock, expire),
            !.t0 = clock, !.ttl = expire, !.wrote = TRUE]

\* cache_service.set(key, value, expire, cache_type)
SetStart(t, p, value, expire) ==
  /\ FreeSlot(t)
  /\ EnsureCleanup
  /\ task' = [task EXCEPT ![t] =
                BeginSet([IdleTask EXCEPT !.op = "set", !.path = p], value, expire)]
  /\ UNCHANGED <<clock, fs, hardcover_enabled, batch, call, admin>>

\* aiofiles.open(temp_file, 'w'): the .tmp file is created, or truncated
\* when it is there (whoever made it)
SetOpen(t) ==
  /\ task[t].pc = "open"
  /\ fs' = [fs EXCEPT ![task[t].path].tmp = FileOf(<<>>)]
  /\ task' = [task EXCEPT ![t].pc = "write", ![t].fd = "tmp"]
  /\ UNCHANGED <<clock, cleanup_started, hardcover_enabled, sweep, batch, call, admin>>

\* the coroutine resumes; f.write and the close that flushes it, in a
\* worker thread: the text goes to offset 0 of the file the descriptor is on
SetWrite(t) ==
  /\ task[t].pc = "write"
  /\ Resumable
  /\ LET p == task[t].path
         text == CacheText(task[t].value, task[t].exp)
     IN fs' = CASE task[t].fd = "tmp" ->
                     [fs EXCEPT ![p].tmp.data = Overwrite(fs[p].tmp.data, text)]
                [] task[t].fd = "final" ->
                     [fs EXCEPT ![p].json.data = Overwrite(fs[p].json.data, text)]
                [] OTHER -> fs
  /\ task' = [task EXCEPT ![t].pc = "rename", ![t].fd = "none"]
  /\ UNCHANGED <<clock, cleanup_started, hardcover_enabled, sweep, batch, call, admin>>

\* the coroutine resumes: temp_file.rename(cache_file); a .tmp file that
\* is gone is a FileNotFoundError, which the handler swallows
SetRename(t) ==
  /\ task[t].pc = "rename"
  /\ Resumable
  /\ LET p == task[t].path IN
       IF fs[p].tmp.exists
         THEN /\ fs' = [fs EXCEPT ![p] = [json |-> fs[p].tmp, tmp |-> MissingFile]]
              /\ task' = [u \in Tasks |->
                            IF u = t THEN [task[t] EXCEPT !.pc = "done", !.res = AfterSet(task[t])]
                            ELSE FdAfterRename(task[u], p)]
         ELSE /\ fs' = fs
              /\ task' = [task EXCEPT ![t] = SetFailure(task[t], "rename")]
  /\ UNCHANGED <<clock, cleanup_started, hardcover_enabled, sweep, batch, call, admin>>

\* storage errors: the open, the write or the rename raises OSError
SetOpenFail(t) ==
  /\ task[t].pc = "open"
  /\ task' = [task EXCEPT ![t] = SetFailure(task[t], "open")]
  /\ UNCHANGED <<clock, fs, cleanup_started, hardcover_enabled, sweep, batch, call, admin>>

SetWriteFail(t) ==
  /\ task[t].pc = "write"
  /\ Resumable
  /\ task' = [task EXCEPT ![t] = SetFailure(task[t], "write")]
  /\ UNCHANGED <<clock, fs, cleanup_started, hardcover_enabled, sweep, batch, call, admin>>

SetRenameFail(t) ==
  /\ task[t].pc = "rename"
  /\ Resumable
  /\ task' = [task EXCEPT ![t] = SetFailure(task[t], "rename")]
  /\ UNCHANGED <<clock, fs, cleanup_started, hardcover_enabled, sweep, batch, call, admin>>

(***************************************************************************)
(* delete, the fetch loop, and the environment.                            *)
(***************************************************************************)
\* cache_service.delete(key, cache_type): no suspension inside
Delete(p) ==
  /\ Remove(p, task)
  /\ UNCHANGED <<clock, cleanup_started, hardcover_enabled, sweep, batch, call, admin>>

\* what the upstream may answer one search with
SearchOutcomes ==
  {"match", "nomatch", "timeout", "http401", "http429", "http500",
   "malformed", "exception"}

\* the ttl of the recommendations namespace
recommendations_expire == cache_expire_seconds

\* the ttl enhance_book_with_metadata caches metadata with
book_expire == book_cache_expire_seconds

\* get_book_metadata returns metadata to the coroutine r that called it:
\* enhance_book_with_metadata applies it and calls cache_service.set
FetchFound(r, metadata) ==
  LET g == [r EXCEPT !.found = metadata, !.attempt = 0, !.strat = 0]
  IN IF r.op = "lookup" THEN BeginSet(g, metadata, book_expire)
     ELSE [g EXCEPT !.pc = "done", !.res = FetchResult(metadata)]

\* _search_books(query) when the upstream answers out: the metadata of the
\* best match, or None; except Exception turns every error (timeout, HTTP
\* status, anything else) into None, so no exception leaves it
_search_books(out, m) ==
  IF out = "match" THEN [ret |-> m, exc |-> "none"]
  ELSE [ret |-> NullValue, exc |-> "none"]

\* a loop that starts the strategy list again without counting the attempt
RetryForever(r, delay) == [r EXCEPT !.strat = 1, !.slept = @ + delay]

\* the for attempt loop goes on (continue, or the end of the strategy
\* list) after sleeping delay seconds; past the last attempt
\* get_book_metadata returns None
NextAttempt(r, delay) ==
  IF r.attempt + 1 < hardcover_retry_attempts
    THEN [r EXCEPT !.attempt = @ + 1, !.strat = 1, !.slept = @ + delay]
    ELSE FetchNone([r EXCEPT !.slept = @ + delay])

\* get_book_metadata on what one _search_books call gave: the result s, in
\* a strategy list of n queries
AfterSearch(r, s, n) ==
  IF s.exc = "none"
    THEN IF Truthy(s.ret) THEN FetchFound(r, s.ret)
         ELSE IF r.strat < n THEN [r EXCEPT !.strat = @ + 1]
         ELSE NextAttempt(r, 0)
  ELSE IF s.exc = "timeout"                \* except httpx.TimeoutException
    THEN NextAttempt(r, IF r.attempt < hardcover_retry_attempts - 1
                          THEN 1 * (r.attempt + 1) ELSE 0)
  ELSE IF s.exc = "http401" THEN FetchNone(r)   \* return None
  ELSE IF s.exc = "http429"                \* sleep, continue
    THEN NextAttempt(r, 5 * (r.attempt + 1))
  ELSE FetchNone(r)                        \* break

\* one _search_books call of get_book_metadata's loops: the query, the
\* upstream's answer, and what get_book_metadata does with the outcome
LookupSearch(t) ==
  /\ task[t].pc = "search"
  /\ Resumable
  /\ \E out \in SearchOutcomes, m \in Metadata :
       LET qs == search_strategies(task[t].title, task[t].author)
           r == [task[t] EXCEPT !.searches = @ + 1, !.last = out,
                                !.query = qs[task[t].strat]]
       IN task' = [task EXCEPT ![t] = AfterSearch(r, _search_books(out, m), Len(qs))]
  /\ UNCHANGED <<clock, fs, cleanup_started, hardcover_enabled, sweep, batch, call, admin>>

\* get_book_metadata(title, author) called directly, as the batch fetch
\* calls it
FetchStart(t, title, author) ==
  /\ FreeSlot(t)
  /\ task' = [task EXCEPT ![t] =
                StartFetch([IdleTask EXCEPT !.op = "fetch", !.title = title,
                                            !.author = author])]
  /\ UNCHANGED <<clock, fs, cleanup_started, hardcover_enabled, sweep, batch, call, admin>>

\* the caller takes the result; the coroutine is gone
TaskReturn(t) ==
  /\ task[t].pc = "done"
  /\ task' = [task EXCEPT ![t] = IdleTask]
  /\ UNCHANGED <<clock, fs, cleanup_started, hardcover_enabled, sweep, batch, call, admin>>

\* time passes
Tick(dt, limit) ==
  /\ clock + dt <= limit
  /\ clock' = clock + dt
  /\ UNCHANGED <<fs, cleanup_started, hardcover_enabled, task, sweep, batch, call, admin>>

(***************************************************************************)
(* SpecSeq: cache operations one after the other.  The sweep task that the *)
(* first get or set creates runs to its end before that operation goes on. *)
(***************************************************************************)
Quiet == sweep.pc = "idle" /\ \A t \in Tasks : task[t].op = "idle"

\* nothing but the coroutine in slot t is in flight
Calm(t) == sweep.pc = "idle" /\ \A u \in Tasks \ {t} : task[u].op = "idle"

InitSeq == InitRest /\ hardcover_enabled = TRUE /\ InitStore(CachePaths)

NextSeq ==
  \/ Tick(1, MaxClock)
  \/ \E t \in Tasks, p \in CachePaths : Calm(t) /\ GetStart(t, p)
  \/ Quiet /\ \E t \in Tasks, p \in CachePaths, v \in Values, e \in Ttls :
                SetStart(t, p, v, e)
  \/ Quiet /\ \E p \in CachePaths : Delete(p)
  \/ Quiet /\ SweepStart
  \/ sweep.pc = "idle" /\ \E t \in Tasks : GetRead(t)
  \/ sweep.pc = "idle" /\ \E t \in Tasks : GetDecide(t)
  \/ sweep.pc = "idle" /\ \E t \in Tasks : SetOpen(t)
  \/ sweep.pc = "idle" /\ \E t \in Tasks : SetWrite(t)
  \/ sweep.pc = "idle" /\ \E t \in Tasks : SetRename(t)
  \/ \E t \in Tasks : TaskReturn(t)
  \/ SweepBegin
  \/ SweepRead
  \/ SweepDecide
  \/ SweepReturn

SpecSeq == InitSeq /\ [][NextSeq]_vars


(***************************************************************************)
(* SpecConc: concurrent set and get calls on one key of a fresh cache      *)
(* directory.  The clock stands still and nothing is deleted, so no entry  *)
(* expires; the one sweep is the task the first call creates, which lists  *)
(* the directory before any file is renamed into it.                       *)
(***************************************************************************)
InitConc == InitRest /\ hardcover_enabled = TRUE /\ fs = EmptyStore

NextConc ==
  \/ \E t \in Tasks : GetStart(t, P0)
  \/ \E t \in Tasks, v \in Metadata : SetStart(t, P0, v, MaxTtl)
  \/ \E t \in Tasks : GetRead(t)
  \/ \E t \in Tasks : GetDecide(t)
  \/ \E t \in Tasks : SetOpen(t)
  \/ \E t \in Tasks : SetWrite(t)
  \/ \E t \in Tasks : SetRename(t)
  \/ \E t \in Tasks : TaskReturn(t)
  \/ SweepBegin
  \/ SweepReturn

SpecConc == InitConc /\ [][NextConc]_vars

(***************************************************************************)
(* SpecFault: SpecConc with storage errors in set.                         *)
(***************************************************************************)
NextFault ==
  \/ NextConc
  \/ \E t \in Tasks : SetOpenFail(t)
  \/ \E t \in Tasks : SetWriteFail(t)
  \/ \E t \in Tasks : SetRenameFail(t)

SpecFault == InitConc /\ [][NextFault]_vars

(***************************************************************************)
(* SpecLookup: metadata lookups (enhance_book_with_metadata) one after the *)
(* other, as time passes.                                                  *)
(***************************************************************************)
LookupTitles == {<<"A">>, <<"a", " ">>}
LookupAuthors == Authors

LookupPaths ==
  { _get_cache_file_path(create_book_cache_key(ti, au), "books") :
      ti \in LookupTitles, au \in LookupAuthors }

LookupHorizon == book_cache_expire_seconds + LookupSlack

InitLookup == InitRest /\ hardcover_enabled \in BOOLEAN /\ InitStore(LookupPaths)

NextLookup ==
  \/ (clock % book_cache_expire_seconds) < LookupSlack /\ Tick(1, LookupHorizon)
  \/ Tick(book_cache_expire_seconds, LookupHorizon)
  \/ Quiet /\ \E t \in Tasks, ti \in LookupTitles, au \in LookupAuthors :
                LookupStart(t, ti, au)
  \/ sweep.pc = "idle" /\ \E t \in Tasks : GetRead(t)
  \/ sweep.pc = "idle" /\ \E t \in Tasks : GetDecide(t)
  \/ sweep.pc = "idle" /\ \E t \in Tasks : LookupSearch(t)
  \/ sweep.pc = "idle" /\ \E t \in Tasks : SetOpen(t)
  \/ sweep.pc = "idle" /\ \E t \in Tasks : SetWrite(t)
  \/ sweep.pc = "idle" /\ \E t \in Tasks : SetRename(t)
  \/ \E t \in Tasks : TaskReturn(t)
  \/ SweepBegin
  \/ SweepRead
  \/ SweepDecide
  \/ SweepReturn

SpecLookup == InitLookup /\ [][NextLookup]_vars

(***************************************************************************)
(* The batch fetch: HardcoverService.get_multiple_books_metadata.          *)
(***************************************************************************)
Min(a, b) == IF a < b THEN a ELSE b

\* asyncio.Semaphore(min(5, settings.max_concurrent_book_requests))
limiter == Min(semaphore_cap, max_concurrent_book_requests)

\* what fetch_with_semaphore ends in for the book b: the metadata of b,
\* None, or an exception
BookMetadata(b) == [tag |-> "value", book |-> b]
BookNone == [tag |-> "None", book |-> 0]
BookRaised == [tag |-> "raised", book |-> 0]
FetchOutcomes(b) == {BookMetadata(b), BookNone, BookRaised}

\* the books list: book i is at index i
BooksList(n) == [i \in 1..n |-> i]

\* an acquire that never waits
AlwaysAcquire(permits) == TRUE

\* semaphore.acquire() goes through without waiting
CanAcquire(permits) == permits > 0

\* a release that is skipped when the fetch raised
ReleaseOnReturn(permits, out) ==
  IF out.tag = "raised" THEN permits ELSE permits + 1

\* async with semaphore: __aexit__ releases, on return and on exception
Release(permits, out) == permits + 1

\* a loop that keeps the exception in the list
Unprocessed(result) == result

\* the loop over gather's results: an exception becomes None
Processed(result) == IF result.tag = "raised" THEN BookNone ELSE result

\* results in the reverse of the order of the tasks
AssembleReversed(outs) ==
  [i \in 1..Len(outs) |-> Processed(outs[Len(outs) + 1 - i])]

\* asyncio.gather(*tasks, return_exceptions=True) and the loop after it:
\* the results in the order of the tasks
Assemble(outs) == [i \in 1..Len(outs) |-> Processed(outs[i])]

\* get_multiple_books_metadata(books) up to its gather: with the
\* integration disabled [None] * len(books) is returned at once; gather of
\* no task returns the empty list
BatchStart(n) ==
  /\ batch.pc = "idle"
  /\ batch' =
       IF ~hardcover_enabled \/ n = 0
         THEN [IdleBatch EXCEPT !.pc = "done", !.n = n,
                                !.st = [i \in 1..n |-> "skipped"],
                                !.out = [i \in 1..n |-> BookNone],
                                !.results = [i \in 1..n |-> BookNone]]
         ELSE [IdleBatch EXCEPT !.pc = "running", !.n = n,
                                !.st = [i \in 1..n |-> "waiting"],
                                !.out = [i \in 1..n |-> BookNone],
                                !.permits = limiter]
  /\ UNCHANGED <<clock, fs, cleanup_started, hardcover_enabled, task, sweep, call, admin>>

\* item i enters async with semaphore: the tasks start in list order and
\* the semaphore wakes its waiters first come, first served
Admit(i) ==
  /\ batch.pc = "running"
  /\ i \in 1..batch.n
  /\ batch.st[i] = "waiting"
  /\ \A j \in 1..(i - 1) : batch.st[j] # "waiting"
  /\ CanAcquire(batch.permits)
  /\ batch' = [batch EXCEPT !.st[i] = "sleeping", !.permits = @ - 1]
  /\ UNCHANGED <<clock, fs, cleanup_started, hardcover_enabled, task, sweep, call, admin>>

\* asyncio.sleep(1.1) of item i is over: get_book_metadata is called
Wake(i) ==
  /\ batch.pc = "running"
  /\ i \in 1..batch.n
  /\ batch.st[i] = "sleeping"
  /\ batch' = [batch EXCEPT !.st[i] = "fetching"]
  /\ UNCHANGED <<clock, fs, cleanup_started, hardcover_enabled, task, sweep, call, admin>>

\* the fetch of item i ends, and with it async with semaphore
FetchEnd(i) ==
  /\ batch.pc = "running"
  /\ i \in 1..batch.n
  /\ batch.st[i] = "fetching"
  /\ \E out \in FetchOutcomes(BooksList(batch.n)[i]) :
       batch' = [batch EXCEPT
                   !.st[i] = "done", !.out[i] = out,
                   !.permits = Release(@, out),
                   !.inverted = @ \/ \E j \in 1..(i - 1) : batch.st[j] # "done"]
  /\ UNCHANGED <<clock, fs, cleanup_started, hardcover_enabled, task, sweep, call, admin>>

\* every task is done: gather returns, the results are processed and
\* get_multiple_books_metadata returns them
Gather ==
  /\ batch.pc = "running"
  /\ \A i \in 1..batch.n : batch.st[i] = "done"
  /\ batch' = [batch EXCEPT !.pc = "done", !.results = Assemble(batch.out)]
  /\ UNCHANGED <<clock, fs, cleanup_started, hardcover_enabled, task, sweep, call, admin>>

\* the caller has the list
BatchReturn ==
  /\ batch.pc = "done"
  /\ batch' = IdleBatch
  /\ UNCHANGED <<clock, fs, cleanup_started, hardcover_enabled, task, sweep, call, admin>>

(***************************************************************************)
(* SpecBatch: batch fetches of up to MaxBatch books, one after the other;  *)
(* SpecBatchFair adds that the event loop runs what is ready and that      *)
(* every fetch ends.                                                       *)
(***************************************************************************)
InitBatch == InitRest /\ hardcover_enabled \in BOOLEAN /\ fs = EmptyStore

\* a step of a running batch
BatchStep ==
  \/ \E i \in 1..MaxBatch : Admit(i)
  \/ \E i \in 1..MaxBatch : Wake(i)
  \/ \E i \in 1..MaxBatch : FetchEnd(i)
  \/ Gather

NextBatch ==
  \/ \E n \in 0..MaxBatch : BatchStart(n)
  \/ BatchStep
  \/ BatchReturn

SpecBatch == InitBatch /\ [][NextBatch]_vars

SpecBatchFair == InitBatch /\ [][NextBatch]_vars /\ WF_vars(BatchStep)

(***************************************************************************)
(* Properties.                                                             *)
(***************************************************************************)
\* the document a read snapshot holds, when it is the whole text of one
SnapDoc(snap) == json_loads(snap.data).doc

\* the snapshot is a well-formed entry: an object with an ISO expired_at
\* and a value
WellFormed(snap) ==
  /\ ~snap.enoent
  /\ json_loads(snap.data).ok
  /\ SnapDoc(snap).shape = "object"
  /\ SnapDoc(snap).exp.kind = "iso"
  /\ SnapDoc(snap).value.kind # "missing"

\* the coroutine in slot t takes the step that ends its cache read
Decides(t) == task[t].pc = "decide" /\ task'[t].pc # "decide"

\* C1: a get that reads an entry whose expired_at is earlier than the
\* clock returns absent, never the value, and the entry's file is gone
\* when the get returns.
C1_ExpiredNeverReturned ==
  [][\A t \in Tasks :
       ( /\ Decides(t)
         /\ WellFormed(task[t].snap)
         /\ SnapDoc(task[t].snap).exp.t < clock )
       => ( /\ task'[t].res.tag = "absent"
            /\ task'[t].pc = "done"
            /\ ~fs'[task[t].path].json.exists )]_vars

\* a get that followed a set found the entry expired: absent, file removed
C1_Witness ==
  \E t \in Tasks :
    /\ task[t].op = "get" /\ task[t].pc = "done"
    /\ task[t].prev.set /\ task[t].prev.t0 + task[t].prev.ttl < clock
    /\ task[t].res = MissRemoved
    /\ ~fs[task[t].path].json.exists

\* C2: whatever set and get calls on one key interleave, the text a get
\* reads is the whole text of one entry some set wrote, never a partial or
\* truncated one.
C2_GetReadsCompleteEntry ==
  \A t \in Tasks :
    (task[t].pc = "decide" /\ ~task[t].snap.enoent)
    => ( /\ json_loads(task[t].snap.data).ok
         /\ \E v \in Metadata :
              task[t].snap.data = CacheText(v, SetExpiry(0, MaxTtl)) )

\* the value a caller gets back for v: v after json.dumps and json.loads
JsonForm(v) == [kind |-> "dict", id |-> v.id]

\* the step in which a get that directly follows the caller's completed
\* set decides on what it has read
ReadsBack(t) == Decides(t) /\ task[t].op = "get" /\ task[t].prev.set

C4_MalformedIsMiss ==
  [][\A t \in Tasks :
       ( /\ Decides(t)
         /\ task[t].op = "get"
         /\ ~task[t].snap.enoent
         /\ ~WellFormed(task[t].snap) )
       => ( /\ task'[t].res.tag = "absent"
            /\ ~task'[t].raised
            /\ ~fs'[task[t].path].json.exists )]_vars

\* C5: a set that met a storage error (at the open of the temporary file,
\* at the write, or at the rename) has returned normally to its caller: no
\* set ever ends in an exception.
C5_SetNeverRaises ==
  \A t \in Tasks :
    (task[t].op = "set" /\ task[t].pc = "done")
    => (task[t].res = SetReturned /\ ~task[t].raised)

\* a set whose write failed and a set whose rename failed have both returned
C5_Witness ==
  \E t, u \in Tasks :
    /\ task[t].op = "set" /\ task[t].pc = "done" /\ task[t].err = "write"
    /\ task[u].op = "set" /\ task[u].pc = "done" /\ task[u].err = "rename"
    /\ task[t].res = SetReturned /\ task[u].res = SetReturned

\* C6: once two concurrent set calls on one key have both completed, the
\* key's file is there, is the whole text of one entry, and holds the value
\* one of the two wrote.
C6_LastWriteWins ==
  \A t, u \in Tasks :
    ( /\ t # u
      /\ task[t].op = "set" /\ task[t].pc = "done"
      /\ task[u].op = "set" /\ task[u].pc = "done"
      /\ task[t].path = task[u].path )
    => LET f == fs[task[t].path].json IN
         /\ f.exists
         /\ json_loads(f.data).ok
         /\ json_loads(f.data).doc.value \in {JsonForm(task[t].value), JsonForm(task[u].value)}

\* the file is an entry that is neither malformed nor expired at time now
LiveEntry(f, now) ==
  /\ WellFormed(ReadFile(f))
  /\ ~(SnapDoc(ReadFile(f)).exp.t < now)

\* C7: a sweep with no operation running beside it keeps every file it
\* finds live and well-formed, and when it ends every file left in the
\* cache directory is live and well-formed: the expired and the malformed
\* ones, of whatever shape, are gone.
C7_SweepRemovesExactly ==
  [][/\ (sweep.pc = "decide" /\ LiveEntry(fs[sweep.cur].json, sweep.now))
         => fs'[sweep.cur].json = fs[sweep.cur].json
     /\ (sweep.pc # "done" /\ sweep'.pc = "done")
         => \A p \in FinalPaths :
              fs'[p].json.exists => LiveEntry(fs'[p].json, sweep'.now)]_vars

MissedLookup(t) ==
  task[t].op = "lookup" /\ task[t].pc = "done" /\ task[t].res.tag = "absent"

C10_HitSkipsUpstream ==
  [][\A t \in Tasks :
       /\ ( /\ Decides(t)
            /\ task[t].op = "lookup"
            /\ WellFormed(task[t].snap)
            /\ ~(SnapDoc(task[t].snap).exp.t < clock) )
          => ( /\ task'[t].pc = "done"
               /\ task'[t].res = Returned(SnapDoc(task[t].snap).value)
               /\ task'[t].searches = 0 )
       /\ task'[t].searches > 0 => task'[t].res.tag = "absent"]_vars

\* a lookup was served from the entry an earlier lookup cached
C10_Witness ==
  \E t \in Tasks :
    /\ task[t].op = "lookup" /\ task[t].pc = "done"
    /\ task[t].res.tag = "value"
    /\ task[t].searches = 0
    /\ fs[task[t].path].json.exists
    /\ clock > 0

(***************************************************************************)
(* SpecFetch: get_book_metadata called directly, one call after the other, *)
(* for every title and author of the model.                                *)
(***************************************************************************)
InitFetch == InitRest /\ hardcover_enabled \in BOOLEAN /\ fs = EmptyStore

NextFetch ==
  \/ Quiet /\ \E t \in Tasks, ti \in Titles, au \in Authors : FetchStart(t, ti, au)
  \/ \E t \in Tasks : LookupSearch(t)
  \/ \E t \in Tasks : TaskReturn(t)

SpecFetch == InitFetch /\ [][NextFetch]_vars

\* the step is one upstream search of the fetch in slot t, answered out
Searched(t, out) ==
  /\ task[t].pc = "search"
  /\ task'[t].searches = task[t].searches + 1
  /\ task'[t].last = out

\* the search was the last request of its fetch, which returns None
Aborted(t) == task'[t].pc = "done" /\ task'[t].res = Miss

\* the fetch goes on with the first strategy of the next attempt after
\* sleeping delay seconds, or ends when no attempt is left
RetriesAfter(t, delay) ==
  IF task[t].attempt + 1 < hardcover_retry_attempts
    THEN /\ task'[t].pc = "search"
         /\ task'[t].attempt = task[t].attempt + 1
         /\ task'[t].strat = 1
         /\ task'[t].slept = task[t].slept + delay
    ELSE Aborted(t)

\* C11: a search answered with HTTP 401 is the last request of its fetch:
\* get_book_metadata returns None at once, with no later strategy and no
\* later attempt.
C11_AuthFailureAborts ==
  [][\A t \in Tasks : Searched(t, "http401") => Aborted(t)]_vars

\* C12: a search that times out ends the current attempt; the fetch sleeps
\* 1 second times the attempt number and then starts the strategy list
\* again, for at most hardcover_retry_attempts attempts.
C12_TimeoutBacksOff ==
  [][\A t \in Tasks :
       Searched(t, "timeout") => RetriesAfter(t, 1 * (task[t].attempt + 1))]_vars

\* C13: a search answered with HTTP 429 makes the fetch sleep 5 seconds
\* times the attempt number before its next request, which it issues only
\* while an attempt is left.
C13_RateLimitBacksOff ==
  [][\A t \in Tasks :
       Searched(t, "http429") => RetriesAfter(t, 5 * (task[t].attempt + 1))]_vars

\* C14: a search that fails with any other error ends the current attempt
\* (its remaining strategies are not issued) and the next attempt runs
\* while one is left.
C14_OtherErrorSkipsAttempt ==
  [][\A t \in Tasks :
       Searched(t, "http500") =>
         IF task[t].attempt + 1 < hardcover_retry_attempts
           THEN /\ task'[t].pc = "search"
                /\ task'[t].attempt = task[t].attempt + 1
                /\ task'[t].strat = 1
           ELSE Aborted(t)]_vars

\* the direct fetch in slot t has returned after a last search answered out
FetchEnded(t, out) ==
  task[t].op = "fetch" /\ task[t].pc = "done" /\ task[t].last = out

\* C15: a fetch whose last search met an authentication failure and a
\* fetch whose last search found no match hand their caller the same
\* outcome, None: get_book_metadata has no "metadata unavailable" result.
C15_FatalIsAbsence ==
  \A t \in Tasks :
    (FetchEnded(t, "http401") \/ FetchEnded(t, "nomatch")) => task[t].res = Miss

\* a fetch has ended on a search answered with HTTP 401
C15_Witness ==
  \E t \in Tasks :
    /\ FetchEnded(t, "http401")
    /\ task[t].searches > 0
    /\ task[t].res = Miss

\* C15 as stated: the outcome after an authentication failure is not the
\* absence a fetch without a match returns
C15_FatalDistinguished ==
  \A t \in Tasks : FetchEnded(t, "http401") => task[t].res # Miss

\* the query list in words: title and author, the title, the cleaned title
\* (lower case, trimmed, stop words dropped from a title of more than two
\* words) when it is not empty and differs from the title, author and
\* title; the two with the author only when there is one
OrderedQueries(title, author) ==
  LET cleaned == _clean_search_query(title)
      one == <<title>>
      two == IF cleaned # <<>> /\ cleaned # title THEN Append(one, cleaned) ELSE one
  IN IF author = <<>> THEN two
     ELSE <<title \o <<" ">> \o author>> \o two \o <<author \o <<" ">> \o title>>

\* the query list as stated: the stripped title is a query of every attempt
ClaimedQueries(title, author) ==
  LET stripped == _clean_search_query(title)
  IN IF author = <<>> THEN <<title, stripped>>
     ELSE <<title \o <<" ">> \o author, title, stripped, author \o <<" ">> \o title>>

\* every search of the fetch in slot t issues the query that is next in
\* qs, attempt after attempt, and a match ends the fetch with that match
IssuesInOrder(t, qs) ==
  (task[t].pc = "search" /\ task'[t].searches = task[t].searches + 1)
  => /\ task'[t].query = qs[(task[t].searches % Len(qs)) + 1]
     /\ task'[t].last = "match"
          => /\ task'[t].pc = "done"
             /\ task'[t].found \in Metadata
             /\ task'[t].res = Returned(task'[t].found)

\* C16: in each attempt the queries are issued in the order title+author,
\* title, cleaned title (only when it differs from the title), author+title
\* (the author queries only with an author); the first search that yields
\* a match makes get_book_metadata return it, and nothing is issued after.
C16_StrategyOrder ==
  [][\A t \in Tasks :
       IssuesInOrder(t, OrderedQueries(task[t].title, task[t].author))]_vars

\* the third query of a fetch with an author, the cleaned title, matched
C16_Witness ==
  \E t \in Tasks :
    /\ task[t].op = "fetch" /\ task[t].pc = "done"
    /\ task[t].author # <<>>
    /\ task[t].searches = 3
    /\ task[t].query = _clean_search_query(task[t].title)
    /\ task[t].res.tag = "value"

\* C16 as stated: the stripped title is a query of every attempt, after
\* the title
C16_ClaimedOrder ==
  [][\A t \in Tasks :
       IssuesInOrder(t, ClaimedQueries(task[t].title, task[t].author))]_vars

\* the batch fetch has returned a list as long as its input
BatchDone == batch.pc = "done" /\ Len(batch.results) = batch.n

\* C17: the list a batch fetch returns is as long as its input, and its
\* i-th element is what the fetch of the i-th book ended in (the metadata
\* of that book, or None), in whatever order the fetches ended.
C17_ResultsInInputOrder ==
  batch.pc = "done" =>
    /\ Len(batch.results) = batch.n
    /\ \A i \in 1..batch.n :
         /\ batch.results[i] \in {BookNone, BookMetadata(BooksList(batch.n)[i])}
         /\ batch.out[i].tag = "value" => batch.results[i] = batch.out[i]

\* fetches ended out of list order and the first and the last book both
\* have their own metadata
C17_Witness ==
  /\ BatchDone /\ batch.n = MaxBatch /\ batch.inverted
  /\ batch.results[1] = BookMetadata(1)
  /\ batch.results[batch.n] = BookMetadata(batch.n)

\* C18: when the fetch of an item raises, that item's result is None, the
\* list keeps its length, and every other item has what its own fetch
\* produced.
C18_FailureIsolated ==
  batch.pc = "done" =>
    /\ Len(batch.results) = batch.n
    /\ \A i \in 1..batch.n :
         IF batch.out[i] = BookRaised
           THEN batch.results[i] = BookNone
           ELSE batch.results[i] = batch.out[i]

\* of three items the second raised; the first and third have metadata
C18_Witness ==
  /\ BatchDone /\ batch.n = 3
  /\ batch.out[2] = BookRaised
  /\ batch.results = <<BookMetadata(1), BookNone, BookMetadata(3)>>

\* the items inside async with semaphore: sleeping or fetching
Admitted == {i \in 1..batch.n : batch.st[i] \in {"sleeping", "fetching"}}

\* C19: at every moment of a batch fetch at most limiter items, min(5,
\* max_concurrent_book_requests), are admitted and not finished.
C19_LimiterBound ==
  /\ Cardinality(Admitted) <= limiter
  /\ batch.pc = "running" => batch.permits = limiter - Cardinality(Admitted)

\* the limiter is full while an item waits
C19_Witness ==
  /\ batch.pc = "running"
  /\ Cardinality(Admitted) = limiter
  /\ \E i \in 1..batch.n : batch.st[i] = "waiting"

\* C20: a batch fetch, of more items than the limiter has slots too, comes
\* to its end with a result for every item: every waiting item is admitted
\* at some time, also after items that held a slot have raised.
C20_BatchCompletes ==
  (batch.pc = "running") ~> BatchDone

\* a batch of more items than slots has ended although the first limiter
\* items all raised
C20_Witness ==
  /\ BatchDone /\ batch.n > limiter
  /\ \A i \in 1..limiter : batch.out[i] = BookRaised
  /\ batch.out[batch.n] = BookMetadata(batch.n)

(***************************************************************************)
(* SpecFetchFair: SpecFetch in which every search is answered.  Each       *)
(* request is made by httpx.AsyncClient(timeout=self.timeout), so the      *)
(* await of _search_books ends with a response or with an exception, and   *)
(* the event loop resumes get_book_metadata.                               *)
(***************************************************************************)
SpecFetchFair ==
  InitFetch /\ [][NextFetch]_vars /\ WF_vars(\E t \in Tasks : LookupSearch(t))

\* the searches a fetch of (title, author) may issue: every strategy in
\* every attempt
SearchBudget(title, author) ==
  hardcover_retry_attempts * Len(search_strategies(title, author))

\* C21: a fetch never issues more than retry_attempts searches per
\* strategy, of which there are at most four, and every fetch that was
\* started returns, whatever the upstream answers each search with
\* (a match, nothing, a timeout, a rate limit, another error).
C21_FetchReturns ==
  /\ [](\A t \in Tasks :
          task[t].op = "fetch" =>
            /\ task[t].searches <= SearchBudget(task[t].title, task[t].author)
            /\ SearchBudget(task[t].title, task[t].author)
                 <= hardcover_retry_attempts * 4)
  /\ \A t \in Tasks : (task[t].op = "fetch") ~> (task[t].pc = "done")

\* a fetch with four strategies has returned None after its whole budget
\* of searches, the last of which timed out
C21_Witness ==
  \E t \in Tasks :
    /\ task[t].op = "fetch" /\ task[t].pc = "done"
    /\ task[t].searches = hardcover_retry_attempts * 4
    /\ task[t].last = "timeout"
    /\ task[t].res = Miss

\* C39: get_book_metadata never raises: whatever the upstream answers
\* its searches with (a timeout, an authentication failure, a rate limit,
\* another HTTP error, a malformed response, an unexpected exception) and
\* when the integration is disabled or has no usable key, a fetch that
\* has ended hands its caller a metadata record or None, and no fetch is
\* ever left by an exception.
C39_FetchNeverRaises ==
  \A t \in Tasks :
    task[t].op = "fetch" =>
      /\ ~task[t].raised /\ task[t].res # Raised
      /\ task[t].pc = "done" =>
           \/ task[t].res = Miss
           \/ \E m \in Metadata : task[t].res = Returned(m)
      /\ (task[t].pc = "done" /\ ~hardcover_enabled) =>
           task[t].res = Miss /\ task[t].searches = 0

\* a fetch has returned None after every search of its budget met an
\* unexpected exception or a malformed response
C39_Witness ==
  \E t \in Tasks :
    /\ task[t].op = "fetch" /\ task[t].pc = "done"
    /\ task[t].last \in {"exception", "malformed"}
    /\ task[t].searches = SearchBudget(task[t].title, task[t].author)
    /\ task[t].res = Miss

(***************************************************************************)
(* The key builders of cache_service.py.                                   *)
(***************************************************************************)
\* the code point of a character: str comparison orders strings by it
Ord(c) ==
  CASE c = " " -> 32 [] c = ":" -> 58 [] c = "A" -> 65 [] c = "B" -> 66
    [] c = "a" -> 97 [] c = "b" -> 98

\* s < u for two str
RECURSIVE StrLess(_, _)
StrLess(s, u) ==
  IF u = <<>> THEN FALSE
  ELSE IF s = <<>> THEN TRUE
  ELSE IF Head(s) # Head(u) THEN Ord(Head(s)) < Ord(Head(u))
  ELSE StrLess(Tail(s), Tail(u))

\* x put into the ascending list xs, after the elements that are not greater
RECURSIVE Insert(_, _)
Insert(x, xs) ==
  IF xs = <<>> THEN <<x>>
  ELSE IF StrLess(x, Head(xs)) THEN <<x>> \o xs
  ELSE <<Head(xs)>> \o Insert(x, Tail(xs))

\* a list that is left in the order it came in
Unsorted(xs) == xs

\* sorted(list of str)
RECURSIVE sorted(_)
sorted(xs) ==
  IF xs = <<>> THEN <<>>
  ELSE Insert(xs[Len(xs)], sorted(SubSeq(xs, 1, Len(xs) - 1)))

\* the preferences argument: None, an empty dict, or a dict with a mood
NonePreferences == [kind |-> "None", mood |-> <<>>]
EmptyPreferences == [kind |-> "empty", mood |-> <<>>]
MoodPreferences(mood) == [kind |-> "dict", mood |-> mood]

\* preferences or {}
OrEmpty(preferences) ==
  IF preferences.kind = "dict" THEN preferences ELSE EmptyPreferences

\* json.dumps of a str: the text between quotes (the alphabet has no
\* character that is escaped)
Quoted(s) == <<"\"">> \o s \o <<"\"">>

\* json.dumps of a list of str
RECURSIVE DumpList(_)
DumpList(xs) ==
  IF xs = <<>> THEN <<>>
  ELSE IF Len(xs) = 1 THEN Quoted(xs[1])
  ELSE Quoted(xs[1]) \o <<", ">> \o DumpList(Tail(xs))

\* json.dumps(cache_data, sort_keys=True): the keys in the order movies,
\* preferences, type, version
json_dumps(cache_data) ==
  <<"{movies: [">> \o DumpList(cache_data.movies)
    \o <<"], preferences: ">>
    \o (IF cache_data.preferences.kind = "dict"
          THEN <<"{mood: ">> \o Quoted(cache_data.preferences.mood) \o <<"}">>
          ELSE <<"{}">>)
    \o <<", type: ">> \o Quoted(cache_data.type)
    \o <<", version: ">> \o Quoted(cache_data.version) \o <<"}">>

\* [movie.lower().strip() for movie in movies]
LowerStripAll(movies) == [i \in 1..Len(movies) |-> Strip(LowerStr(movies[i]))]

\* create_recommendation_cache_key
create_recommendation_cache_key(movies, preferences, recommendation_type) ==
  LET sorted_movies == sorted(LowerStripAll(movies))
      cache_data == [movies |-> sorted_movies,
                     preferences |-> OrEmpty(preferences),
                     type |-> recommendation_type,
                     version |-> <<"2.0">>]
  IN <<"movies_v2:">> \o md5(json_dumps(cache_data))

\* create_taste_profile_cache_key
create_taste_profile_cache_key(movies, preferences) ==
  LET sorted_movies == sorted(LowerStripAll(movies))
      cache_data == [movies |-> sorted_movies,
                     preferences |-> OrEmpty(preferences),
                     type |-> <<"taste_profile">>,
                     version |-> <<"2.0">>]
  IN <<"taste_profile_v2:">> \o md5(json_dumps(cache_data))

\* the arguments of one call of a key builder
BookInput(title, author) ==
  [fn |-> "book", title |-> title, author |-> author, movies |-> <<>>,
   preferences |-> NonePreferences, type |-> <<>>]
RecommendationInput(movies, preferences, recommendation_type) ==
  [fn |-> "recommendation", title |-> <<>>, author |-> <<>>, movies |-> movies,
   preferences |-> preferences, type |-> recommendation_type]
TasteProfileInput(movies, preferences) ==
  [fn |-> "taste_profile", title |-> <<>>, author |-> <<>>, movies |-> movies,
   preferences |-> preferences, type |-> <<>>]

\* the key the builder x.fn makes of the arguments x
KeyOf(x) ==
  CASE x.fn = "book" -> create_book_cache_key(x.title, x.author)
    [] x.fn = "recommendation" ->
         create_recommendation_cache_key(x.movies, x.preferences, x.type)
    [] x.fn = "taste_profile" ->
         create_taste_profile_cache_key(x.movies, x.preferences)

\* the texts the builders are called with
KeyTitles == {<<"a">>, <<"A">>, <<" ", "a">>, <<"a", ":", "b">>, <<"a", " ", "b">>}
KeyAuthors == {<<>>, <<"b">>, <<"B", " ">>, <<"b", ":", "b">>}
MovieNames == {<<"a">>, <<"A", " ">>, <<"b">>}
TypeTexts == {<<"a">>, <<"A">>, <<"b">>}
PreferenceValues ==
  {NonePreferences, EmptyPreferences, MoodPreferences(<<"a">>),
   MoodPreferences(<<"A">>)}

RECURSIVE ListsUpTo(_, _)
ListsUpTo(S, n) ==
  IF n = 0 THEN {<<>>}
  ELSE LET shorter == ListsUpTo(S, n - 1)
       IN shorter \cup {Append(l, x) : l \in {m \in shorter : Len(m) = n - 1}, x \in S}

MovieLists == ListsUpTo(MovieNames, MaxMovies)

KeyInputs ==
  {BookInput(ti, au) : ti \in KeyTitles, au \in KeyAuthors}
    \cup {RecommendationInput(ms, p, ty) :
            ms \in MovieLists, p \in PreferenceValues, ty \in TypeTexts}
    \cup {TasteProfileInput(ms, p) : ms \in MovieLists, p \in PreferenceValues}

\* two calls of key builders, each with its own arguments
BuildKeys(x, y) ==
  /\ call = NoCall
  /\ call' = [fn |-> "keys", x |-> x, y |-> y, kx |-> KeyOf(x), ky |-> KeyOf(y)]
  /\ UNCHANGED <<clock, fs, cleanup_started, hardcover_enabled, task, sweep, batch, admin>>

\* the caller has taken what the call returned
CallReturn ==
  /\ call # NoCall
  /\ call' = NoCall
  /\ UNCHANGED <<clock, fs, cleanup_started, hardcover_enabled, task, sweep, batch, admin>>

(***************************************************************************)
(* SpecKeys: every pair of calls of the key builders.                      *)
(***************************************************************************)
InitKeys == InitRest /\ hardcover_enabled = TRUE /\ fs = EmptyStore

NextKeys ==
  \/ call = NoCall /\ \E x \in KeyInputs, y \in KeyInputs : BuildKeys(x, y)
  \/ CallReturn

SpecKeys == InitKeys /\ [][NextKeys]_vars

\* the upper-case form of a character
Upper(c) == CASE c = "a" -> "A" [] c = "b" -> "B" [] c = "d" -> "D" [] OTHER -> c

\* s without the white space at its two ends
Core(s) ==
  LET inside == {i \in 1..Len(s) : s[i] # " "}
  IN IF inside = {} THEN <<>>
     ELSE SubSeq(s, CHOOSE i \in inside : \A j \in inside : i <= j,
                    CHOOSE i \in inside : \A j \in inside : i >= j)

\* s and u differ in letter case and in white space at the ends only
SameText(s, u) ==
  /\ Len(Core(s)) = Len(Core(u))
  /\ \A i \in 1..Len(Core(s)) : Upper(Core(s)[i]) = Upper(Core(u)[i])

\* the two movie lists are permutations of each other, up to SameText
SameMovies(ms, ns) ==
  /\ Len(ms) = Len(ns)
  /\ \A i \in 1..Len(ms) :
       Cardinality({j \in 1..Len(ms) : SameText(ms[j], ms[i])})
         = Cardinality({j \in 1..Len(ns) : SameText(ns[j], ms[i])})

\* the same preferences; None and the empty dict both say "none given"
SamePreferences(p, q) == p = q \/ (p.kind # "dict" /\ q.kind # "dict")

\* the same logical input: the same builder, titles, authors and movie
\* names that are the same text, the same movies in any order, the same
\* preferences and the same recommendation type
SameLogical(x, y) ==
  /\ x.fn = y.fn
  /\ SameText(x.title, y.title) /\ SameText(x.author, y.author)
  /\ SameMovies(x.movies, y.movies)
  /\ SamePreferences(x.preferences, y.preferences)
  /\ x.type = y.type

\* the same input when every text part counts up to case and white space:
\* the recommendation type and the texts of the preferences too
SameUpToText(x, y) ==
  /\ x.fn = y.fn
  /\ SameText(x.title, y.title) /\ SameText(x.author, y.author)
  /\ SameMovies(x.movies, y.movies)
  /\ x.preferences.kind = "dict" <=> y.preferences.kind = "dict"
  /\ SameText(x.preferences.mood, y.preferences.mood)
  /\ SameText(x.type, y.type)

\* C22: two calls of a key builder whose movie lists are permutations of
\* each other and whose movie names, titles and authors differ only in
\* letter case and in white space at the ends get the same key, given the
\* same preferences and the same recommendation type.
C22_KeyOfNormalizedInput ==
  (call.fn = "keys" /\ SameLogical(call.x, call.y)) => call.kx = call.ky

\* two recommendation keys of a permuted list of two different movies that
\* are spelled in different case and with a trailing blank
C22_Witness ==
  /\ call.fn = "keys" /\ call.x.fn = "recommendation"
  /\ SameLogical(call.x, call.y)
  /\ Len(call.x.movies) = 2 /\ call.x.movies # call.y.movies
  /\ ~SameText(call.x.movies[1], call.x.movies[2])
  /\ call.x.movies[1] # call.y.movies[2]
  /\ call.kx = call.ky

\* C22 as stated: the letter case and the outer white space of every text
\* part are without effect on the key
C22_AnyTextPart ==
  (call.fn = "keys" /\ SameUpToText(call.x, call.y)) => call.kx = call.ky

\* C23: two calls with different logical inputs never get the same key:
\* different (title, author) pairs, also with ':' in them, different
\* builders, different recommendation types.
C23_DistinctInputsDistinctKeys ==
  (call.fn = "keys" /\ ~SameLogical(call.x, call.y)) => call.kx # call.ky

(***************************************************************************)
(* The resolver: HardcoverService._find_best_search_match.                 *)
(***************************************************************************)
\* scores are floats in the code; here they are exact, counted in units of
\* 1/Scale, which every quotient and product of the model's inputs divides
Scale == 21000

\* sub in s
Contains(s, sub) ==
  \E i \in 0..(Len(s) - Len(sub)) : SubSeq(s, i + 1, i + Len(sub)) = sub

\* the first position at which sep starts in s, 0 when sep is not in s
Find(s, sep) ==
  IF Contains(s, sep)
    THEN CHOOSE i \in 1..(Len(s) - Len(sep) + 1) :
           /\ SubSeq(s, i, i + Len(sep) - 1) = sep
           /\ \A j \in 1..(i - 1) : SubSeq(s, j, j + Len(sep) - 1) # sep
    ELSE 0

\* s.split(sep)[0] and s.split(sep)[1], for sep in s
Before(s, sep) == SubSeq(s, 1, Find(s, sep) - 1)
After(s, sep) ==
  LET rest == SubSeq(s, Find(s, sep) + Len(sep), Len(s))
  IN IF Contains(rest, sep) THEN Before(rest, sep) ELSE rest

By == <<" ", "b", "y", " ">>

\* title_part and author_part of a query
ParseQuery(query) ==
  LET query_lower == Strip(LowerStr(query))
      words == Words(query_lower)
  IN IF Contains(query_lower, By)
       THEN [title_part |-> Strip(Before(query_lower, By)),
             author_part |-> Strip(After(query_lower, By))]
     ELSE IF Len(words) > 3
       THEN [title_part |-> Join(SubSeq(words, 1, Len(words) - 2)),
             author_part |-> Join(SubSeq(words, Len(words) - 1, Len(words)))]
     ELSE [title_part |-> query_lower, author_part |-> <<>>]

\* a search result document: title is absent (or None) when titled is
\* FALSE; rating10 is the rating in tenths, 0 for none
Book(titled, title, author_names, rating10, users_count) ==
  [titled |-> titled, title |-> title, author_names |-> author_names,
   rating10 |-> rating10, users_count |-> users_count]

\* a resolver that scores what has no title too
AnyBook(book) == TRUE

\* book and book.get("title")
HasTitle(book) == book.titled /\ book.title # <<>>

\* set(text.split())
WordSet(text) == {Words(text)[i] : i \in 1..Len(Words(text))}

\* the stop words of the word overlap that the alphabet can spell
match_stop_words == {<<"a">>, <<"b", "y">>}

\* a title score that does not tell a containing title from an equal one
TitleScoreFlat(title_part, book_title) ==
  IF book_title = title_part \/ Contains(book_title, title_part)
    THEN 100 * Scale ELSE 0

\* the score of the title alone
TitleScore(title_part, book_title) ==
  IF book_title = title_part THEN 100 * Scale
  ELSE IF Contains(book_title, title_part) THEN 90 * Scale
  ELSE IF Contains(title_part, book_title) THEN 85 * Scale
  ELSE LET title_words == WordSet(title_part) \ match_stop_words
           book_words == WordSet(book_title) \ match_stop_words
           overlap == Cardinality(title_words \cap book_words)
           union == Cardinality(title_words \cup book_words)
       IN IF title_words # {} /\ book_words # {} /\ overlap > 0
            THEN (overlap * 80 * Scale) \div union
            ELSE 0

\* author_match: some author of the book contains author_part, is
\* contained in it, or shares a word with it
AuthorMatch(author_part, book_authors) ==
  \E i \in 1..Len(book_authors) :
    LET book_author_lower == LowerStr(book_authors[i])
    IN \/ Contains(book_author_lower, author_part)
       \/ Contains(author_part, book_author_lower)
       \/ WordSet(author_part) \cap WordSet(book_author_lower) # {}

\* a penalty that leaves a tenth of the score
PenaltyTenth(score) == score \div 10

\* score *= 0.7
Penalty(score) == (score * 7) \div 10

\* a resolver that leaves the author out of the score
AuthorIgnored(score, author_part, book_authors) == score

\* the score after author matching
AuthorAdjusted(score, author_part, book_authors) ==
  IF author_part # <<>> /\ score > 0
    THEN IF AuthorMatch(author_part, book_authors)
           THEN score + 20 * Scale
           ELSE Penalty(score)
    ELSE score

\* bonuses without their caps
UncappedBonus(book) ==
  (book.rating10 * Scale) \div 10
    + (IF book.users_count > 100 THEN (book.users_count * Scale) \div 1000 ELSE 0)

\* min(5, rating) for a rating above 0, min(3, users_count / 1000) for more
\* than 100 users
PopularityBonus(book) ==
  (IF book.rating10 > 0 THEN Min(5 * Scale, (book.rating10 * Scale) \div 10) ELSE 0)
    + (IF book.users_count > 100
         THEN Min(3 * Scale, (book.users_count * Scale) \div 1000) ELSE 0)

\* the score of one titled book
ScoreOf(book, title_part, author_part) ==
  AuthorAdjusted(TitleScore(title_part, Strip(LowerStr(book.title))),
                 author_part, book.author_names)
    + PopularityBonus(book)

\* scored_results: the books from position i on that have a title and a
\* score above 0, with their scores, in the order of results
RECURSIVE ScoredFrom(_, _, _, _)
ScoredFrom(results, i, title_part, author_part) ==
  IF i > Len(results) THEN <<>>
  ELSE LET rest == ScoredFrom(results, i + 1, title_part, author_part)
           score == ScoreOf(results[i], title_part, author_part)
       IN IF HasTitle(results[i]) /\ score > 0
            THEN <<[score |-> score, index |-> i]>> \o rest
            ELSE rest

\* x put into a descending list before the elements of the same score
InsertDescFirst(x, xs) ==
  LET higher == SelectSeq(xs, LAMBDA y : y.score > x.score)
      others == SelectSeq(xs, LAMBDA y : y.score <= x.score)
  IN higher \o <<x>> \o others

\* x put into the descending list xs behind the elements that score as
\* much or more
RECURSIVE InsertDesc(_, _)
InsertDesc(x, xs) ==
  IF xs = <<>> THEN <<x>>
  ELSE IF x.score > Head(xs).score THEN <<x>> \o xs
  ELSE <<Head(xs)>> \o InsertDesc(x, Tail(xs))

\* scored_results.sort(key=lambda x: x[0], reverse=True): a stable sort
RECURSIVE SortDesc(_)
SortDesc(xs) ==
  IF xs = <<>> THEN <<>>
  ELSE InsertDesc(xs[Len(xs)], SortDesc(SubSeq(xs, 1, Len(xs) - 1)))

\* an acceptance that takes a score of 10 too
AcceptedFromTen(best_score) == best_score >= 10 * Scale

\* best_score > 10
Accepted(best_score) == best_score > 10 * Scale

\* what the resolver returns: None, or the book at position index of
\* results (the score is what it logs)
NoMatch == [found |-> FALSE, index |-> 0, score |-> 0]
Match(index, score) == [found |-> TRUE, index |-> index, score |-> score]

\* the best of scored_results
BestOf(scored_results) ==
  IF scored_results = <<>> THEN NoMatch
  ELSE LET best == SortDesc(scored_results)[1]
       IN IF Accepted(best.score) THEN Match(best.index, best.score) ELSE NoMatch

\* a resolver that finds nothing once time has passed
MatchWhileFresh(results, query) ==
  IF clock = 0 /\ results # <<>>
    THEN BestOf(ScoredFrom(results, 1, ParseQuery(query).title_part,
                           ParseQuery(query).author_part))
    ELSE NoMatch

\* HardcoverService._find_best_search_match
_find_best_search_match(results, query) ==
  IF results = <<>> THEN NoMatch
  ELSE LET q == ParseQuery(query)
       IN BestOf(ScoredFrom(results, 1, q.title_part, q.author_part))

\* the queries and the search results the resolver is called with
MatchQueries ==
  { <<"d">>,
    <<" ", "D">>,
    <<"c", " ", "d", " ", "e">>,
    <<"c", " ", "d", " ", "e", " ", "b", "y", " ", "b">>,
    <<"c", " ", "d", " ", "f", " ", "a", " ", "B">> }

\* the candidate titled c g h i j k, which shares one word of eight with
\* the query c d e
FarTitle == <<"c", " ", "g", " ", "h", " ", "i", " ", "j", " ", "k">>

BookTitles ==
  { [titled |-> FALSE, title |-> <<>>],
    [titled |-> TRUE, title |-> <<>>],
    [titled |-> TRUE, title |-> <<"d">>],
    [titled |-> TRUE, title |-> <<"D", " ", "m">>],
    [titled |-> TRUE, title |-> <<"c", " ", "d", " ", "f">>],
    [titled |-> TRUE, title |-> FarTitle],
    [titled |-> TRUE, title |-> <<"z">>] }

\* rating (in tenths) and users_count: none, a rating of 4.5, a rating of
\* 9 with 5000 users
NoPopularity == [rating10 |-> 0, users_count |-> 0]
SomePopularity == [rating10 |-> 45, users_count |-> 100]
TopPopularity == [rating10 |-> 90, users_count |-> 5000]

\* the documents of the search results: every title without authors, two
\* titles with an author too, each unrated and top rated; and the far
\* title with a rating of 4.5
Books ==
  { Book(t.titled, t.title, <<>>, p.rating10, p.users_count) :
      t \in BookTitles, p \in {NoPopularity, TopPopularity} }
  \cup { Book(TRUE, t, << <<"B">> >>, p.rating10, p.users_count) :
           t \in {<<"d">>, <<"c", " ", "d", " ", "f">>},
           p \in {NoPopularity, TopPopularity} }
  \cup { Book(TRUE, FarTitle, <<>>, SomePopularity.rating10,
               SomePopularity.users_count) }

ResultLists == ListsUpTo(Books, MaxResults)

\* what a run of the resolver could see of its surroundings: the time and
\* whether the cache holds a file at P0
Seen == [clock |-> clock, stored |-> fs[P0].json.exists]

\* one call of the resolver
Resolve(query, results) ==
  /\ call = NoCall
  /\ LET best_book == _find_best_search_match(results, query)
     IN call' = [fn |-> "resolve", query |-> query, results |-> results,
                 first |-> best_book, ret |-> best_book, at |-> <<Seen>>]
  /\ UNCHANGED <<clock, fs, cleanup_started, hardcover_enabled, task, sweep, batch, admin>>

(***************************************************************************)
(* SpecResolve: the resolver called with every query and every list of     *)
(* results of the model.                                                   *)
(***************************************************************************)
InitResolve == InitRest /\ hardcover_enabled = TRUE /\ fs = EmptyStore

NextResolve ==
  \/ call = NoCall /\ \E q \in MatchQueries, rs \in ResultLists : Resolve(q, rs)
  \/ CallReturn

SpecResolve == InitResolve /\ [][NextResolve]_vars

\* the resolver has been called and has returned
Resolved == call.fn = "resolve"

\* C24: with an empty list of candidates, or with candidates that all lack
\* a title, the resolver returns no match; a candidate without a title is
\* never the one returned, whatever its rating and its number of users.
C24_UntitledNeverMatch ==
  Resolved =>
    /\ (\A i \in 1..Len(call.results) : ~HasTitle(call.results[i]))
         => call.ret = NoMatch
    /\ call.ret.found =>
         /\ call.ret.index \in 1..Len(call.results)
         /\ call.results[call.ret.index].titled
         /\ call.results[call.ret.index].title # <<>>

\* a book without a title with the highest rating and many users came
\* before a titled book, which is the match
C24_Witness ==
  /\ Resolved /\ Len(call.results) = 2
  /\ ~call.results[1].titled
  /\ call.results[1].rating10 = 90 /\ call.results[1].users_count = 5000
  /\ call.results[2].rating10 = 0
  /\ call.ret.found /\ call.ret.index = 2

\* title_part and author_part of the call's query
QueryTitle == ParseQuery(call.query).title_part
QueryAuthor == ParseQuery(call.query).author_part

\* the positions of the candidates that have a title
Titled == {i \in 1..Len(call.results) : HasTitle(call.results[i])}

\* book_title of the candidate at position i
NormTitle(i) == Strip(LowerStr(call.results[i].title))

\* the title score and the final score of the candidate at position i
TitleScoreAt(i) == TitleScore(QueryTitle, NormTitle(i))
FinalScoreAt(i) == ScoreOf(call.results[i], QueryTitle, QueryAuthor)

\* the highest of the scores f gives the titled candidates, 0 without one
Highest(f(_)) ==
  IF Titled = {} THEN 0
  ELSE f(CHOOSE i \in Titled : \A j \in Titled : f(i) >= f(j))

\* C25: for a query without an author part, when one candidate's
\* normalized title equals the query title and another's only contains it,
\* the candidate returned is one with the equal title and its score is at
\* least 100, whatever ratings and user counts the candidates have.
C25_ExactTitleWins ==
  ( /\ Resolved /\ QueryAuthor = <<>>
    /\ \E i \in Titled : NormTitle(i) = QueryTitle
    /\ \E j \in Titled : NormTitle(j) # QueryTitle /\ Contains(NormTitle(j), QueryTitle) )
  => /\ call.ret.found
     /\ NormTitle(call.ret.index) = QueryTitle
     /\ call.ret.score >= 100 * Scale

\* the containing title came first, with the highest rating and many
\* users; the equal title second, without either, and it is the match
C25_Witness ==
  /\ Resolved /\ QueryAuthor = <<>> /\ Len(call.results) = 2
  /\ Titled = {1, 2}
  /\ NormTitle(1) # QueryTitle /\ Contains(NormTitle(1), QueryTitle)
  /\ PopularityBonus(call.results[1]) = 8 * Scale
  /\ NormTitle(2) = QueryTitle
  /\ PopularityBonus(call.results[2]) = 0
  /\ call.ret = Match(2, 100 * Scale)

\* the query has an author part and no titled candidate's author matches
NoAuthorMatches ==
  /\ QueryAuthor # <<>>
  /\ \A i \in Titled : ~AuthorMatch(QueryAuthor, call.results[i].author_names)

\* C26: for a query with an author part that no candidate's author
\* matches, a best title score of 40 gives a match (40 x 0.7 = 28 is above
\* 10), and a best title score of at most 14 gives no match when no
\* candidate has a rating or popularity bonus.
C26_PenaltyAndThreshold ==
  (Resolved /\ NoAuthorMatches) =>
    /\ Highest(TitleScoreAt) = 40 * Scale
         => call.ret.found /\ call.ret.score >= 28 * Scale
    /\ ( /\ Highest(TitleScoreAt) <= 14 * Scale
         /\ \A i \in Titled : PopularityBonus(call.results[i]) = 0 )
         => call.ret = NoMatch

\* the one candidate has title score 40, no matching author and no bonus:
\* it is the match, with score 28
C26_Witness ==
  /\ Resolved /\ NoAuthorMatches /\ Len(call.results) = 1 /\ Titled = {1}
  /\ TitleScoreAt(1) = 40 * Scale
  /\ call.ret = Match(1, 28 * Scale)

\* C26 as stated: a best title score of at most 14 gives no match
C26_LowTitleNeverMatches ==
  (Resolved /\ NoAuthorMatches /\ Highest(TitleScoreAt) <= 14 * Scale)
    => call.ret = NoMatch

\* C27: the rating bonus is at most 5 and the popularity bonus at most 3,
\* and a candidate whose title score is 0 is never the match, whatever its
\* rating and its number of users.
C27_PopularityNeverOverrides ==
  Resolved =>
    /\ \A i \in Titled : PopularityBonus(call.results[i]) <= (5 + 3) * Scale
    /\ call.ret.found => TitleScoreAt(call.ret.index) > 0

\* the only candidate has a title that shares nothing with the query, a
\* rating of 9 and 5000 users: no match
C27_Witness ==
  /\ Resolved /\ Len(call.results) = 1 /\ Titled = {1}
  /\ TitleScoreAt(1) = 0
  /\ call.results[1].rating10 = 90 /\ call.results[1].users_count = 5000
  /\ FinalScoreAt(1) = 8 * Scale
  /\ call.ret = NoMatch

\* C28: the resolver returns a candidate exactly when the highest final
\* score of the titled candidates is above 10, and that candidate has the
\* highest score; with a highest score of 10 or less it returns no match.
C28_ThresholdAndBest ==
  Resolved =>
    /\ call.ret.found <=> Highest(FinalScoreAt) > 10 * Scale
    /\ call.ret.found =>
         /\ call.ret.index \in Titled
         /\ FinalScoreAt(call.ret.index) = Highest(FinalScoreAt)
         /\ call.ret.score = Highest(FinalScoreAt)
    /\ ~call.ret.found => call.ret = NoMatch

\* the best candidate scores 10 exactly: no match
C28_Witness ==
  /\ Resolved /\ Titled # {}
  /\ Highest(FinalScoreAt) = 10 * Scale
  /\ call.ret = NoMatch

\* C29: of several candidates with the highest final score the one that
\* is first in the list of results is returned.
C29_FirstOfTies ==
  (Resolved /\ call.ret.found) =>
    \A i \in Titled :
      FinalScoreAt(i) = Highest(FinalScoreAt) => call.ret.index <= i

\* two different candidates share the highest score; the first is the match
C29_Witness ==
  /\ Resolved /\ Len(call.results) = 2 /\ Titled = {1, 2}
  /\ call.results[1] # call.results[2]
  /\ FinalScoreAt(1) = FinalScoreAt(2)
  /\ call.ret.found /\ call.ret.index = 1

(***************************************************************************)
(* SpecResolveTwice: the resolver run twice on the same query and results, *)
(* while time passes and the cache entry at P0 is deleted, from stores     *)
(* with and without a file there and with the integration on and off.      *)
(***************************************************************************)
\* the second run of the resolver on the arguments of the first
ResolveAgain ==
  /\ call.fn = "resolve" /\ Len(call.at) = 1
  /\ call' = [call EXCEPT
                !.ret = _find_best_search_match(call.results, call.query),
                !.at = Append(@, Seen)]
  /\ UNCHANGED <<clock, fs, cleanup_started, hardcover_enabled, task, sweep, batch, admin>>

InitTwice == InitRest /\ hardcover_enabled \in BOOLEAN /\ InitStore({P0})

NextTwice ==
  \/ call = NoCall /\ \E q \in MatchQueries, rs \in ListsUpTo(Books, 1) : Resolve(q, rs)
  \/ ResolveAgain
  \/ CallReturn
  \/ Tick(1, MaxClock)
  \/ Delete(P0)

SpecResolveTwice == InitTwice /\ [][NextTwice]_vars

\* the step is a run of the resolver
ResolverRuns == call' # call /\ call'.fn = "resolve"

Tokens(text) == WordSet(text) \ match_stop_words

\* the title score as stated: 100, 90, 85, or 80 times the Jaccard
\* similarity of the tokens
StatedTitleScore(i) ==
  LET q == Tokens(QueryTitle)
      c == Tokens(NormTitle(i))
  IN IF NormTitle(i) = QueryTitle THEN 100 * Scale
     ELSE IF Contains(NormTitle(i), QueryTitle) THEN 90 * Scale
     ELSE IF Contains(QueryTitle, NormTitle(i)) THEN 85 * Scale
     ELSE IF q \cap c = {} THEN 0
     ELSE (80 * Scale * Cardinality(q \cap c)) \div Cardinality(q \cup c)

\* the stated score after the author step
StatedAuthorScore(i) ==
  IF QueryAuthor = <<>> \/ StatedTitleScore(i) = 0 THEN StatedTitleScore(i)
  ELSE IF AuthorMatch(QueryAuthor, call.results[i].author_names)
    THEN StatedTitleScore(i) + 20 * Scale
  ELSE (StatedTitleScore(i) * 7) \div 10

\* min(5, rating) and min(3, popularity_count / 1000)
StatedRatingBonus(i) ==
  LET rating == (call.results[i].rating10 * Scale) \div 10
  IN IF rating < 5 * Scale THEN rating ELSE 5 * Scale
StatedCountBonus(i) ==
  LET thousandths == (call.results[i].users_count * Scale) \div 1000
  IN IF thousandths < 3 * Scale THEN thousandths ELSE 3 * Scale

\* the score the resolver gave the candidate at position i is s
ScoredAs(i, s) ==
  /\ FinalScoreAt(i) = s
  /\ (call.ret.found /\ call.ret.index = i) => call.ret.score = s

\* C35: the score of every titled candidate is the stated title score,
\* then the author bonus or penalty, then min(5, rating) for a rating
\* above 0, then min(3, users_count / 1000) for a count above 100: a book
\* with 100 users or fewer gets no popularity bonus.
C35_ScoreFormula ==
  Resolved =>
    \A i \in Titled :
      ScoredAs(i, StatedAuthorScore(i)
                    + (IF call.results[i].rating10 > 0
                         THEN StatedRatingBonus(i) ELSE 0)
                    + (IF call.results[i].users_count > 100
                         THEN StatedCountBonus(i) ELSE 0))

\* the match is a candidate with a token-overlap title score of 10, no
\* matching author, a rating of 4.5 and 100 users: 10 x 0.7 + 4.5 = 11.5
C35_Witness ==
  /\ Resolved /\ QueryAuthor # <<>>
  /\ call.ret.found /\ call.ret.index \in Titled
  /\ LET i == call.ret.index
     IN /\ TitleScoreAt(i) = 10 * Scale
        /\ ~AuthorMatch(QueryAuthor, call.results[i].author_names)
        /\ call.results[i].rating10 = 45 /\ call.results[i].users_count = 100
        /\ call.ret.score = (23 * Scale) \div 2

\* C35 as stated: the popularity bonus min(3, popularity_count / 1000) is
\* added for every count.
C35_BonusForEveryCount ==
  Resolved =>
    \A i \in Titled :
      ScoredAs(i, StatedAuthorScore(i) + StatedRatingBonus(i) + StatedCountBonus(i))

(***************************************************************************)
(* SpecRace: get, set, delete and the sweep on one key, in any             *)
(* interleaving, as time passes.                                           *)
(***************************************************************************)
\* cache_service.delete(key, cache_type) called by a coroutine of its own:
\* it runs to its end without a suspension and returns None
DeleteStart(t, p) ==
  /\ FreeSlot(t)
  /\ Remove(p, [task EXCEPT ![t] =
                  [IdleTask EXCEPT !.op = "delete", !.pc = "done", !.path = p,
                                   !.res = SetReturned]])
  /\ UNCHANGED <<clock, cleanup_started, hardcover_enabled, sweep, batch, call, admin>>

InitRace == InitRest /\ hardcover_enabled = TRUE /\ fs = EmptyStore

NextRace ==
  \/ Tick(1, MaxClock)
  \/ \E t \in Tasks : GetStart(t, P0)
  \/ \E t \in Tasks : SetStart(t, P0, DictM1, MaxTtl)
  \/ \E t \in Tasks : DeleteStart(t, P0)
  \/ SweepStart
  \/ \E t \in Tasks : GetRead(t)
  \/ \E t \in Tasks : GetDecide(t)
  \/ \E t \in Tasks : SetOpen(t)
  \/ \E t \in Tasks : SetWrite(t)
  \/ \E t \in Tasks : SetRename(t)
  \/ \E t \in Tasks : TaskReturn(t)
  \/ SweepBegin
  \/ SweepRead
  \/ SweepDecide
  \/ SweepReturn

SpecRace == InitRace /\ [][NextRace]_vars

\* the coroutine in slot t is a delete call, which this step runs
Deletes(t) == task[t].op = "idle" /\ task'[t].op = "delete"

\* the coroutine in slot t is a get call, which this step starts
GetBegins(t) == task[t].op = "idle" /\ task'[t].op = "get"

\* C31: a delete returns normally and leaves no entry under its key, it
\* changes nothing else, and nothing at all when the key is absent (also
\* when a sweep or a get that read the entry is still to remove it); a
\* get that starts while the key is absent, as it is after one or more
\* deletes, returns absent.
C31_DeleteIdempotent ==
  [][\A t \in Tasks :
       /\ Deletes(t) =>
            /\ task'[t].pc = "done" /\ task'[t].res = SetReturned
            /\ ~task'[t].raised
            /\ ~fs'[task'[t].path].json.exists
            /\ \A p \in FinalPaths :
                 /\ fs'[p].tmp = fs[p].tmp
                 /\ p # task'[t].path => fs'[p] = fs[p]
            /\ ~fs[task'[t].path].json.exists =>
                 /\ fs' = fs
                 /\ \A u \in Tasks \ {t} : task'[u] = task[u]
            /\ UNCHANGED <<clock, cleanup_started, sweep>>
       /\ (GetBegins(t) /\ ~fs[task'[t].path].json.exists) =>
            /\ task'[t].pc = "done" /\ task'[t].res = Miss
            /\ fs' = fs]_vars

\* a second delete of the key has returned while the sweep that read the
\* entry before the first one has still to remove it
C31_Witness ==
  /\ \A t \in Tasks : task[t].op = "delete" /\ task[t].pc = "done"
  /\ sweep.pc = "decide" /\ ~sweep.snap.enoent
  /\ ~fs[P0].json.exists


\* this step removes the entry at path p, and it is a step of a get or of
\* the sweep
ExpiryRemoves(p) ==
  /\ fs[p].json.exists /\ ~fs'[p].json.exists
  /\ ~\E t \in Tasks : Deletes(t)

\* C36: the entry a get or the sweep removes is never one that is live and
\* well-formed at the moment of the removal, whatever sets run beside it.
C36_RemovesOnlyInspected ==
  [][\A p \in FinalPaths :
       ExpiryRemoves(p) => ~LiveEntry(fs[p].json, clock)]_vars

(***************************************************************************)
(* clear_all and get_cache_stats.                                          *)
(***************************************************************************)
\* cache_type = None of clear_all: every namespace
AllTypes == "all"

\* the arguments clear_all is called with: a namespace that holds entries,
\* one that holds none, or None
ClearTypes == Namespaces \cup {"taste_profiles", AllTypes}

\* the .json files clear_all(cache_type) walks: glob of one directory, or
\* rglob of the cache directory
Globbed(f, cache_type) ==
  {p \in FinalPaths : f[p].json.exists /\ (cache_type = AllTypes \/ p.ns = cache_type)}

\* a clear that keeps the namespace it is called with and empties the others
ClearOthers(f, cache_type) ==
  [p \in FinalPaths |->
     IF p.ns # cache_type THEN [f[p] EXCEPT !.json = MissingFile] ELSE f[p]]

\* CacheService.clear_all: _remove_cache_file for every file of the walk,
\* with no suspension
clear_all(f, cache_type) ==
  [p \in FinalPaths |->
     IF p \in Globbed(f, cache_type) THEN _remove_cache_file(f, p)[p] ELSE f[p]]

\* cache_service.clear_all(cache_type): it runs to its end and returns None
ClearStart(cache_type) ==
  /\ admin.op = "idle"
  /\ fs' = clear_all(fs, cache_type)
  /\ task' = [u \in Tasks |->
                IF task[u].path \in Globbed(fs, cache_type)
                  THEN FdAfterUnlink(task[u], task[u].path) ELSE task[u]]
  /\ admin' = [IdleAdmin EXCEPT !.op = "clear", !.pc = "done",
                                !.cache_type = cache_type,
                                !.stats = [tag |-> "None"]]
  /\ UNCHANGED <<clock, cleanup_started, hardcover_enabled, sweep, batch, call>>

\* stats = {'total_files': 0, 'total_size_bytes': 0, 'by_type': {},
\* 'version_info': {}}; a namespace or a version that is no key yet counts 0
NoStats ==
  [tag |-> "stats", total_files |-> 0, total_size_bytes |-> 0,
   by_type |-> [ns \in Namespaces |-> [files |-> 0, size_bytes |-> 0]],
   version_info |-> [v \in {"2.0", "unknown"} |-> 0]]

\* except Exception as e: return {'error': str(e)}
StatsError == [tag |-> "error"]

\* cache_file.stat(): the size, or FileNotFoundError
Stat(f) ==
  IF f.exists THEN [ok |-> TRUE, st_size |-> Len(f.data)]
  ELSE [ok |-> FALSE, st_size |-> 0]

\* the loop body of get_cache_stats up to aiofiles.open, for the file p
\* that holds f: the counters
Counted(st, p, f) ==
  [st EXCEPT !.total_files = @ + 1,
             !.total_size_bytes = @ + Stat(f).st_size,
             !.by_type[p.ns].files = @ + 1,
             !.by_type[p.ns].size_bytes = @ + Stat(f).st_size]

\* cache_data.get('version', '1.0') of what was read: an entry set wrote
\* has version 2.0; a file that is gone, that is no JSON text or no object
\* counts as unknown (the bare except)
VersionOf(snap) ==
  IF snap.enoent \/ ~json_loads(snap.data).ok THEN "unknown"
  ELSE IF json_loads(snap.data).doc.shape # "object" THEN "unknown"
  ELSE "2.0"

\* get_cache_stats goes to the next file of the walk, the listing l, with
\* the counters st: it returns them after the last one, a stat() of a
\* file that is gone ends the call in the outer handler
StatsStep(a, l, st) ==
  IF l.todo = {}
    THEN {[a EXCEPT !.pc = "done", !.dirs = <<>>, !.todo = {}, !.data = NoSnap,
                    !.stats = st]}
    ELSE {IF Stat(fs[p].json).ok
            THEN [a EXCEPT !.pc = "read", !.dirs = l.dirs, !.todo = l.todo \ {p},
                           !.cur = p, !.data = NoSnap,
                           !.stats = Counted(st, p, fs[p].json)]
            ELSE [a EXCEPT !.pc = "done", !.dirs = <<>>, !.todo = {},
                           !.data = NoSnap, !.stats = StatsError]
          : p \in l.todo}

\* cache_service.get_cache_stats() up to its first aiofiles.open
StatsStart ==
  /\ admin.op = "idle"
  /\ \E o \in DirOrders :
       admin' \in StatsStep([IdleAdmin EXCEPT !.op = "stats"],
                            NextListing(fs, o, {}), NoStats)
  /\ UNCHANGED <<clock, fs, cleanup_started, hardcover_enabled, task, sweep, batch, call>>

\* aiofiles.open + f.read of the current file, in a worker thread
StatsRead ==
  /\ admin.op = "stats" /\ admin.pc = "read"
  /\ admin' = [admin EXCEPT !.pc = "next", !.data = ReadFile(fs[admin.cur].json)]
  /\ UNCHANGED <<clock, fs, cleanup_started, hardcover_enabled, task, sweep, batch, call>>

\* the coroutine resumes: the version is counted, then the next file
StatsNext ==
  /\ admin.op = "stats" /\ admin.pc = "next"
  /\ admin' \in StatsStep(admin, NextListing(fs, admin.dirs, admin.todo),
                          [admin.stats EXCEPT
                             !.version_info[VersionOf(admin.data)] = @ + 1])
  /\ UNCHANGED <<clock, fs, cleanup_started, hardcover_enabled, task, sweep, batch, call>>

\* the caller takes the result of clear_all or get_cache_stats
AdminReturn ==
  /\ admin.pc = "done"
  /\ admin' = IdleAdmin
  /\ UNCHANGED <<clock, fs, cleanup_started, hardcover_enabled, task, sweep, batch, call>>

\* no get, set or delete is in flight
NoTask == \A t \in Tasks : task[t].op = "idle"

\* what runs beside a clear_all or a get_cache_stats call on the entries
\* paths: one set or delete at a time, and the sweep
Beside(paths) ==
  \/ NoTask /\ \E t \in Tasks, p \in paths : SetStart(t, p, DictM1, MaxTtl)
  \/ NoTask /\ \E t \in Tasks, p \in paths : DeleteStart(t, p)
  \/ \E t \in Tasks : SetOpen(t)
  \/ \E t \in Tasks : SetWrite(t)
  \/ \E t \in Tasks : SetRename(t)
  \/ \E t \in Tasks : TaskReturn(t)
  \/ SweepBegin
  \/ SweepRead
  \/ SweepDecide
  \/ SweepReturn

(***************************************************************************)
(* SpecClear: clear_all on entries of two namespaces.                      *)
(***************************************************************************)
InitClear == InitRest /\ hardcover_enabled = TRUE /\ InitStore(CachePaths)

NextClear ==
  \/ Tick(1, MaxClock)
  \/ Beside(CachePaths)
  \/ \E ct \in ClearTypes : ClearStart(ct)
  \/ AdminReturn

SpecClear == InitClear /\ [][NextClear]_vars

\* this step is a clear_all call
Clears == admin.op = "idle" /\ admin'.op = "clear"

\* the namespace of path p is one clear_all(cache_type) empties
InCleared(p, cache_type) == cache_type = AllTypes \/ p.ns = cache_type

\* C32: clear_all(cache_type) returns None and removes the entries of the
\* namespace cache_type (of every namespace for None), leaves every entry
\* of another namespace and every .tmp file as it was, and the same clear
\* run again right after it would change nothing.
C32_ClearExactly ==
  [][Clears =>
       /\ admin'.pc = "done" /\ admin'.stats = [tag |-> "None"]
       /\ \A p \in FinalPaths :
            /\ InCleared(p, admin'.cache_type) => ~fs'[p].json.exists
            /\ ~InCleared(p, admin'.cache_type) => fs'[p].json = fs[p].json
            /\ fs'[p].tmp = fs[p].tmp
       /\ clear_all(fs', admin'.cache_type) = fs'
       /\ UNCHANGED <<clock, cleanup_started, sweep>>]_vars

\* clear_all("books") has removed the live entry a set had just written,
\* and the entry of the other namespace is there
C32_Witness ==
  /\ admin.op = "clear" /\ admin.cache_type = "books"
  /\ \E t \in Tasks :
       /\ task[t].op = "set" /\ task[t].pc = "done" /\ task[t].err = "none"
       /\ task[t].path.ns = "books" /\ clock < task[t].exp
       /\ ~fs[task[t].path].json.exists
  /\ LiveEntry(fs[P0].json, clock)

(***************************************************************************)
(* SpecStats: get_cache_stats on two entries of one namespace.  Time       *)
(* passes between the sets, deletes and sweeps.                            *)
(***************************************************************************)
StatsPaths ==
  { _get_cache_file_path(create_book_cache_key(ti, <<>>), "books") :
      ti \in {<<"A">>, <<"b">>} }

InitStats == InitRest /\ hardcover_enabled = TRUE /\ InitStore(StatsPaths)

NextStats ==
  \/ NoTask /\ sweep.pc = "idle" /\ Tick(1, MaxClock)
  \/ Beside(StatsPaths)
  \/ StatsStart
  \/ StatsRead
  \/ StatsNext
  \/ AdminReturn

SpecStats == InitStats /\ [][NextStats]_vars

\* this step is one of a get_cache_stats call
StatsRuns == admin' # admin /\ admin'.op = "stats"

\* C33: no step of a get_cache_stats call changes a file, removes an
\* expired or malformed entry or starts a sweep, and the call returns the
\* aggregate record, never an error, also when entries are deleted while
\* it runs.
C33_StatsReadOnly ==
  [][StatsRuns =>
       /\ UNCHANGED <<fs, cleanup_started, sweep, task, clock>>
       /\ admin'.pc = "done" => admin'.stats.tag = "stats"]_vars

(***************************************************************************)
(* SpecKeyPair: get, set and delete calls on the entries of two            *)
(* (namespace, key) pairs, in any interleaving.  The clock stands still:   *)
(* what get and the sweep remove are the malformed files of the start.     *)
(***************************************************************************)
InitKeyPair == InitRest /\ hardcover_enabled = TRUE /\ InitStore(CachePaths)

NextKeyPair ==
  \/ \E t \in Tasks, p \in CachePaths : GetStart(t, p)
  \/ \E t \in Tasks, p \in CachePaths : SetStart(t, p, DictM1, MaxTtl)
  \/ \E t \in Tasks, p \in CachePaths : DeleteStart(t, p)
  \/ \E t \in Tasks : GetRead(t)
  \/ \E t \in Tasks : GetDecide(t)
  \/ \E t \in Tasks : SetOpen(t)
  \/ \E t \in Tasks : SetWrite(t)
  \/ \E t \in Tasks : SetRename(t)
  \/ \E t \in Tasks : TaskReturn(t)
  \/ SweepBegin
  \/ SweepRead
  \/ SweepDecide
  \/ SweepReturn

SpecKeyPair == InitKeyPair /\ [][NextKeyPair]_vars

\* the coroutine in slot t is a get or a set between two suspensions
InFlight(t) == task[t].op \in {"get", "set"} /\ task[t].pc # "done"

\* the next step of the coroutine in slot t
Proceeds(t) ==
  GetRead(t) \/ GetDecide(t) \/ SetOpen(t) \/ SetWrite(t) \/ SetRename(t)

\* a call on path p by a new coroutine
Begins(p) ==
  \E t \in Tasks : GetStart(t, p) \/ SetStart(t, p, DictM1, MaxTtl) \/ DeleteStart(t, p)

\* this step is one of the coroutine in slot t
StepOf(t) == task'[t].pc # task[t].pc \/ task'[t].op # task[t].op

\* the path the coroutine that takes this step in slot t works on
PathOf(t) == IF task[t].op = "idle" THEN task'[t].path ELSE task[t].path

\* C34: a step of a get, set or delete on one (namespace, key) changes no
\* file of another one and no coroutine that works on another one; and a
\* get or set in flight can always take its next step, and a new call can
\* always begin, whatever is in progress on another key (once the event
\* loop has run the first step of a sweep task that was queued before).
C34_KeysIndependent ==
  /\ [](\A t \in Tasks :
          /\ (InFlight(t) /\ sweep.pc # "created") => ENABLED Proceeds(t)
          /\ FreeSlot(t) => \A p \in CachePaths : ENABLED Begins(p))
  /\ [][\A t \in Tasks :
          StepOf(t) =>
            /\ \A p \in FinalPaths \ {PathOf(t)} : fs'[p] = fs[p]
            /\ \A u \in Tasks \ {t} :
                 task[u].path # PathOf(t) => task'[u] = task[u]]_vars

\* a set on one key is about to rename while a get on the other key, which
\* has read its file, is still to decide
C34_Witness ==
  \E t, u \in Tasks :
    /\ task[t].op = "set" /\ task[t].pc = "rename"
    /\ task[u].op = "get" /\ task[u].pc = "decide"
    /\ task[t].path # task[u].path
    /\ fs[task[t].path].json.exists /\ fs[task[u].path].json.exists

(***************************************************************************)
(* Enrichment: enhance_book_with_metadata applies a metadata record to a   *)
(* book, fresh from the fetch or read back from the cache.                 *)
(***************************************************************************)
\* Python values of the fields of a metadata record
PyNone == [t |-> "None", n |-> 0, s |-> <<>>]
PyInt(n) == [t |-> "int", n |-> n, s |-> <<>>]
PyStr(s) == [t |-> "str", n |-> 0, s |-> s]
PyList(xs) == [t |-> "list", n |-> 0, s |-> xs]

\* bool(v): None, 0, "" and [] are falsy
Bool(v) == v.n # 0 \/ v.s # <<>>

\* json.dumps of a field value, and json.loads of the text
ToJson(v) ==
  [v EXCEPT !.t = CASE v.t = "None" -> "null" [] v.t = "int" -> "number"
                    [] v.t = "str" -> "string" [] OTHER -> "array"]
FromJson(j) ==
  [j EXCEPT !.t = CASE j.t = "null" -> "None" [] j.t = "number" -> "int"
                    [] j.t = "string" -> "str" [] OTHER -> "list"]

\* the record get returns for the one set stored: every member through
\* json.dumps and json.loads
Cached(metadata) == [k \in DOMAIN metadata |-> FromJson(ToJson(metadata[k]))]

\* metadata.get(k) and metadata.get(k, default)
GetOr(metadata, k, default) ==
  IF k \in DOMAIN metadata THEN metadata[k] ELSE default
Get(metadata, k) == GetOr(metadata, k, PyNone)

\* the members of the record _extract_metadata_from_search_result builds
\* that enhance_book_with_metadata reads
MetadataRecords ==
  [cover_url : {PyNone, PyStr(<<"c">>)},
   rating : {PyNone, PyInt(0), PyInt(4)},
   users_count : {PyNone, PyInt(5000)},
   url : {PyNone, PyStr(<<"u">>)},
   publication_year : {PyNone, PyInt(1965)},
   page_count : {PyNone, PyInt(412)},
   description : {PyNone, PyStr(<<>>), PyStr(<<"d">>)},
   genres : {PyList(<<>>), PyList(<<"g">>)},
   hardcover_id : {PyNone, PyInt(7)}]

\* the BookRecommendation the generation step hands over: the metadata
\* fields unset, genre_tags unset or filled in by the generation
NewBook(genre_tags) ==
  [cover_url |-> PyNone, rating |-> PyNone, hardcover_url |-> PyNone,
   genre_tags |-> genre_tags, isbn |-> PyNone, publication_year |-> PyNone,
   page_count |-> PyNone, publisher |-> PyNone, hardcover_id |-> PyNone,
   users_count |-> PyNone, description |-> PyNone]

NewBooks == {NewBook(PyNone), NewBook(PyList(<<"x">>))}

\* the branch after the fetch: every field is assigned
ApplyFetched(book, book_metadata) ==
  [book EXCEPT
     !.cover_url = Get(book_metadata, "cover_url"),
     !.rating = Get(book_metadata, "rating"),
     !.hardcover_url = Get(book_metadata, "url"),
     !.genre_tags = GetOr(book_metadata, "genres", PyList(<<>>)),
     !.isbn = Get(book_metadata, "isbn"),
     !.publication_year = Get(book_metadata, "publication_year"),
     !.page_count = Get(book_metadata, "page_count"),
     !.publisher = Get(book_metadata, "publisher"),
     !.hardcover_id = Get(book_metadata, "hardcover_id"),
     !.users_count = Get(book_metadata, "users_count"),
     !.description = Get(book_metadata, "description")]

\* if cached_metadata.get(k): book.field = cached_metadata[k]
Taken(old, cached_metadata, k) ==
  IF Bool(Get(cached_metadata, k)) THEN cached_metadata[k] ELSE old

\* the branch of the cache hit: a field is assigned when the member it is
\* looked up under is truthy
ApplyCached(book, cached_metadata) ==
  [book EXCEPT
     !.cover_url = Taken(@, cached_metadata, "cover_url"),
     !.rating = Taken(@, cached_metadata, "rating"),
     !.hardcover_url = Taken(@, cached_metadata, "hardcover_url"),
     !.genre_tags = IF Bool(Get(cached_metadata, "genre_tags"))
                      THEN GetOr(cached_metadata, "genres", PyList(<<>>))
                      ELSE @,
     !.isbn = Taken(@, cached_metadata, "isbn"),
     !.publication_year = Taken(@, cached_metadata, "publication_year"),
     !.page_count = Taken(@, cached_metadata, "page_count"),
     !.publisher = Taken(@, cached_metadata, "publisher"),
     !.hardcover_id = Taken(@, cached_metadata, "hardcover_id"),
     !.users_count = Taken(@, cached_metadata, "users_count"),
     !.description = Taken(@, cached_metadata, "description")]

\* enhance_book_with_metadata on a miss, with the record the fetch gave,
\* and on the hit that reads back the entry that call stored
Enhance(book, book_metadata) ==
  /\ call = NoCall
  /\ call' = [fn |-> "enhance", book |-> book, metadata |-> book_metadata,
              fetched |-> ApplyFetched(book, book_metadata),
              hit |-> ApplyCached(book, Cached(book_metadata))]
  /\ UNCHANGED <<clock, fs, cleanup_started, hardcover_enabled, task, sweep, batch, admin>>

InitEnrich == InitRest /\ hardcover_enabled = TRUE /\ fs = EmptyStore

NextEnrich ==
  \/ call = NoCall /\ \E b \in NewBooks, m \in MetadataRecords : Enhance(b, m)
  \/ CallReturn

SpecEnrich == InitEnrich /\ [][NextEnrich]_vars

\* C37: the book enriched on a cache hit has the same cover URL, rating,
\* external URL, genre tags, publication year, page count, identifier,
\* popularity count and description as the book enriched right after the
\* fetch that stored the entry.
C37_HitSameAsFetched ==
  call.fn = "enhance" =>
    \A field \in {"cover_url", "rating", "hardcover_url", "genre_tags",
                  "publication_year", "page_count", "hardcover_id",
                  "users_count", "description"} :
      call.hit[field] = call.fetched[field]

(***************************************************************************)
(* SpecOnce: concurrent get and set calls on one key of a fresh cache      *)
(* directory, with delete, clear_all and get_cache_stats calls among them. *)
(* The cleanup task lists the directory before any file is renamed into    *)
(* it.                                                                     *)
(***************************************************************************)
InitOnce == InitRest /\ hardcover_enabled = TRUE /\ fs = EmptyStore

NextOnce ==
  \/ \E t \in Tasks : GetStart(t, P0)
  \/ \E t \in Tasks : SetStart(t, P0, DictM1, MaxTtl)
  \/ \E t \in Tasks : DeleteStart(t, P0)
  \/ ClearStart(AllTypes)
  \/ StatsStart
  \/ StatsRead
  \/ StatsNext
  \/ AdminReturn
  \/ \E t \in Tasks : GetRead(t)
  \/ \E t \in Tasks : GetDecide(t)
  \/ \E t \in Tasks : SetOpen(t)
  \/ \E t \in Tasks : SetWrite(t)
  \/ \E t \in Tasks : SetRename(t)
  \/ \E t \in Tasks : TaskReturn(t)
  \/ SweepBegin
  \/ SweepReturn

SpecOnce == InitOnce /\ [][NextOnce]_vars

\* this step creates the cleanup task
Creates == sweep.pc # "created" /\ sweep'.pc = "created"

\* the coroutine in slot t is a set call, which this step starts
SetBegins(t) == task[t].op = "idle" /\ task'[t].op = "set"

\* C38: the cleanup task is created only by the start of a get or a set,
\* only while _cleanup_started is unset, and the step sets it; the flag is
\* never unset again, so the task is created at most once.  No step of a
\* delete, a clear_all or a get_cache_stats creates it or sets the flag.
C38_CleanupOnce ==
  [][/\ Creates =>
          /\ ~cleanup_started /\ cleanup_started'
          /\ \E t \in Tasks : GetBegins(t) \/ SetBegins(t)
     /\ cleanup_started => cleanup_started'
     /\ (\A t \in Tasks : GetBegins(t) \/ SetBegins(t) => cleanup_started')
     /\ ((\E t \in Tasks : Deletes(t)) \/ Clears \/ StatsRuns)
          => UNCHANGED <<cleanup_started, sweep>>]_vars

\* a get and a set are in flight together after the one cleanup task has
\* run and ended, and a get_cache_stats call has returned beside them
C38_Witness ==
  /\ cleanup_started /\ sweep.pc = "idle"
  /\ \E t, u \in Tasks :
       /\ task[t].op = "get" /\ task[t].pc = "read"
       /\ task[u].op = "set" /\ task[u].pc = "write"
  /\ admin.op = "stats" /\ admin.pc = "done"

\* this step is the rename of the set in slot t, and it succeeds
Renames(t) ==
  /\ task[t].op = "set" /\ task[t].pc = "rename"
  /\ task'[t].pc = "done" /\ task'[t].err = "none"

\* C40: a set changes the entry stored under its key by its completed
\* rename and by nothing else, so a set that meets a storage error at its
\* open, its write or its rename leaves the entry that was there as it
\* was, complete, for the gets that follow.
C40_FailedSetKeepsEntry ==
  [][\A t \in Tasks :
       (task[t].op = "set" /\ StepOf(t) /\ ~Renames(t)) =>
         fs'[task[t].path].json = fs[task[t].path].json]_vars

====
